---------------------------- MODULE Spec2Model ----------------------------
(***************************************************************************)
(* Model of the data core of the endangered-species tracker:               *)
(*   - GestorAnimales (src/main.py): the in-memory table, load/save to a   *)
(*     spreadsheet file, add / modify / delete of single records;          *)
(*   - agregar_animal (src/proyecto.py): the add handler of the            *)
(*     module-global variant.                                              *)
(*                                                                         *)
(* Text values are sequences of one-character strings, so that strip(),    *)
(* lower() and the substring test of the source are computed, not assumed. *)
(* A DataFrame is a sequence of rows; each row carries its index label     *)
(* (etiqueta) next to the four columns, because drop() and .at[] of the    *)
(* source address rows by label, not by position.                          *)
(***************************************************************************)
EXTENDS Integers, Sequences, FiniteSets, TLC

VARIABLES
    df,                   \* GestorAnimales.df: sequence of labelled rows
    ruta_archivo,         \* GestorAnimales.ruta_archivo: a path or None
    cambios_sin_guardar,  \* GestorAnimales.cambios_sin_guardar
    disco,                \* the file system: path -> spreadsheet file
    ret,                  \* the last call of a GestorAnimales method and what it returned
    p_df,                 \* proyecto.py: the module-global df
    p_msg,                \* proyecto.py: the last messagebox shown
    p_entradas,           \* proyecto.py: the texts of entry_nombre, entry_cantidad,
                          \* entry_anio and entry_provincia
    p_ruta_archivo,       \* proyecto.py: the module-global ruta_archivo
    consulta,             \* the last query of GestorAnimales and what it returned
    temporales,           \* the chart image files present in the temporary directory
    ui,                   \* the last handler of a window that ran, and how it ended
    p_dialogos            \* proyecto.py: the open dialogs of
                          \* abrir_dialogo_modificar_eliminar, each with its idx and fila

vars == <<df, ruta_archivo, cambios_sin_guardar, disco, ret, p_df, p_msg, p_entradas,
          p_ruta_archivo, consulta, temporales, ui, p_dialogos>>

\* The number of dialogs of abrir_dialogo_modificar_eliminar that can be open at a time
MaxDialogos == 2

\* The variables that load, save, add, modify and delete of GestorAnimales leave alone
ajenas == <<p_df, p_msg, p_entradas, p_ruta_archivo, consulta, temporales, ui, p_dialogos>>

---------------------------------------------------------------------------
(* Bounds of the model *)

\* agregar_registro / agregar_animal are explored while the table has fewer rows
MaxRows == 2

---------------------------------------------------------------------------
(* Text *)

None == "None"

Txt_vacio == << >>
Txt_blancos == <<" ", " ">>
Txt_nan == <<"n","a","n">>
Txt_inf == <<"i","n","f">>
Txt_abc == <<"a","b","c">>
Txt_Gato == <<"G","a","t","o">>
Txt_Narnia == <<"N","a","r","n","i","a">>

Aguila_Arpia == <<"Á","g","u","i","l","a"," ","A","r","p","í","a">>
Jaguar == <<"J","a","g","u","a","r">>
Perezoso_de_Tres_Dedos ==
    <<"P","e","r","e","z","o","s","o"," ","d","e"," ","T","r","e","s"," ","D","e","d","o","s">>
Tapir_Centroamericano ==
    <<"T","a","p","i","r"," ","C","e","n","t","r","o","a","m","e","r","i","c","a","n","o">>
Tortuga_Carey == <<"T","o","r","t","u","g","a"," ","C","a","r","e","y">>
Rana_Dorada == <<"R","a","n","a"," ","D","o","r","a","d","a">>
Manati_del_Caribe ==
    <<"M","a","n","a","t","í"," ","d","e","l"," ","C","a","r","i","b","e">>
Aguila_Harpia == <<"Á","g","u","i","l","a"," ","H","a","r","p","í","a">>

Bocas_del_Toro == <<"B","o","c","a","s"," ","d","e","l"," ","T","o","r","o">>
Chiriqui == <<"C","h","i","r","i","q","u","í">>
Cocle == <<"C","o","c","l","é">>
Colon == <<"C","o","l","ó","n">>
Darien == <<"D","a","r","i","é","n">>
Herrera == <<"H","e","r","r","e","r","a">>
Los_Santos == <<"L","o","s"," ","S","a","n","t","o","s">>
Panama == <<"P","a","n","a","m","á">>
Veraguas == <<"V","e","r","a","g","u","a","s">>
Panama_Oeste == <<"P","a","n","a","m","á"," ","O","e","s","t","e">>

PROVINCIAS_PANAMA ==
    << Bocas_del_Toro, Chiriqui, Cocle, Colon, Darien,
       Herrera, Los_Santos, Panama, Veraguas, Panama_Oeste >>

ESPECIES_PANAMA ==
    << Aguila_Arpia, Jaguar, Perezoso_de_Tres_Dedos,
       Tapir_Centroamericano, Tortuga_Carey, Rana_Dorada >>

ESPECIES_PERMITIDAS ==
    << Jaguar, Manati_del_Caribe, Tapir_Centroamericano, Tortuga_Carey, Aguila_Harpia >>

COLUMNAS_REQUERIDAS == <<"Especie", "Cantidad", "Año", "Provincia">>

\* x in lista (Python's membership test on a list)
EnLista(x, lista) == \E i \in DOMAIN lista : lista[i] = x

EsBlanco(c) == c \in {" ", "\t", "\n"}

RECURSIVE LStrip(_)
LStrip(s) == IF s # << >> /\ EsBlanco(Head(s)) THEN LStrip(Tail(s)) ELSE s

RECURSIVE RStrip(_)
RStrip(s) ==
    IF s # << >> /\ EsBlanco(s[Len(s)]) THEN RStrip(SubSeq(s, 1, Len(s) - 1)) ELSE s

\* str.strip()
Strip(s) == RStrip(LStrip(s))

Mayusculas ==
    <<"A","B","C","D","E","F","G","H","I","J","K","L","M","N","O","P","Q","R","S","T",
      "U","V","W","X","Y","Z","Á","É","Í","Ó","Ú","Ñ">>
Minusculas ==
    <<"a","b","c","d","e","f","g","h","i","j","k","l","m","n","o","p","q","r","s","t",
      "u","v","w","x","y","z","á","é","í","ó","ú","ñ">>

LowerChar(c) ==
    IF \E i \in DOMAIN Mayusculas : Mayusculas[i] = c
    THEN Minusculas[CHOOSE i \in DOMAIN Mayusculas : Mayusculas[i] = c]
    ELSE c

\* str.lower()
Lower(s) == [i \in DOMAIN s |-> LowerChar(s[i])]

\* a in b, for two texts (substring test)
EsSubcadena(a, b) ==
    \E i \in 0..(Len(b) - Len(a)) : SubSeq(b, i + 1, i + Len(a)) = a

Digitos == <<"0","1","2","3","4","5","6","7","8","9">>

EsDigito(c) == \E i \in DOMAIN Digitos : Digitos[i] = c

ValorDigito(c) == (CHOOSE i \in DOMAIN Digitos : Digitos[i] = c) - 1

\* str.isdigit(): non-empty and every character a digit
IsDigit(s) == s # << >> /\ \A i \in DOMAIN s : EsDigito(s[i])

RECURSIVE ValorDigitos(_)
ValorDigitos(s) ==
    IF s = << >> THEN 0 ELSE 10 * ValorDigitos(SubSeq(s, 1, Len(s) - 1)) + ValorDigito(s[Len(s)])

\* whether int(s) returns (an optional sign and decimal digits) rather than raising
IntParsea(s) ==
    \/ IsDigit(s)
    \/ s # << >> /\ Head(s) \in {"-", "+"} /\ IsDigit(Tail(s))

\* int(s), where it returns
IntDe(s) ==
    IF Head(s) = "-" THEN 0 - ValorDigitos(Tail(s))
    ELSE IF Head(s) = "+" THEN ValorDigitos(Tail(s))
    ELSE ValorDigitos(s)

---------------------------------------------------------------------------
(* Spreadsheet files and what pandas reads from and writes to them *)

\* A cell: a text, a number (n holds the value in tenths, so that 25 is 2.5),
\* an empty cell (NaN once read), or a non-finite number.
CTxt(s) == [k |-> "txt", s |-> s, n |-> 0]
CNum(decimos) == [k |-> "num", s |-> << >>, n |-> decimos]
CNaN == [k |-> "nan", s |-> << >>, n |-> 0]
CInf == [k |-> "inf", s |-> << >>, n |-> 0]

\* A file: its state and, when it is a readable workbook, its header and rows
\* (each row a function from the header's column names to cells).
Archivo(columnas, filas) == [estado |-> "ok", columnas |-> columnas, filas |-> filas]
NoExiste == [estado |-> "no_existe", columnas |-> {}, filas |-> << >>]
Corrupto == [estado |-> "corrupto", columnas |-> {}, filas |-> << >>]

\* The texts pandas reads as a missing value (its default na_values, those in use here)
VALORES_NA ==
    { Txt_vacio, Txt_nan, <<"N","a","N">>, <<"N","A">>, <<"N","o","n","e">>,
      <<"n","u","l","l">>, <<"N","U","L","L">> }

\* pd.read_excel(ruta) raises: no such file, or not a workbook
LeerFalla(archivo) == archivo.estado # "ok"

LeerCelda(c) == IF c.k = "txt" /\ c.s \in VALORES_NA THEN CNaN ELSE c

\* pd.read_excel(ruta), where it returns: the rows, empty cells and NA texts as NaN
read_excel(archivo) ==
    [ columnas |-> archivo.columnas,
      filas |-> [i \in DOMAIN archivo.filas |->
                    [c \in archivo.columnas |-> LeerCelda(archivo.filas[i][c])]] ]

\* pd.to_numeric(col, errors="coerce"), cell by cell
to_numeric(c) ==
    CASE c.k = "num" -> c
      [] c.k = "inf" -> c
      [] c.k = "nan" -> c
      [] c.k = "txt" ->
            IF IntParsea(c.s) THEN CNum(10 * IntDe(c.s))
            ELSE IF c.s = Txt_inf THEN CInf
            ELSE CNaN

\* .fillna(0)
fillna0(c) == IF c.k = "nan" THEN CNum(0) ELSE c

\* .astype(int) raises on a non-finite value
AstypeIntFalla(c) == c.k = "inf"

\* .astype(int), where it returns: truncation toward zero
astype_int(c) == IF c.n >= 0 THEN c.n \div 10 ELSE 0 - ((0 - c.n) \div 10)

\* .astype(str) of a text column: NaN becomes the text "nan"
astype_str(c) ==
    CASE c.k = "txt" -> c.s
      [] c.k = "nan" -> Txt_nan

\* Mutant of corregir_provincia: the last partial match wins
M_corregir_provincia_UltimaCoincidencia(prov_) ==
    LET prov == Strip(prov_)
        Coincide(p) == \/ EsSubcadena(Lower(prov), Lower(p))
                       \/ EsSubcadena(Lower(p), Lower(prov))
    IN  IF EnLista(prov, PROVINCIAS_PANAMA) THEN prov
        ELSE IF \E i \in DOMAIN PROVINCIAS_PANAMA : Coincide(PROVINCIAS_PANAMA[i])
        THEN LET ultimo == CHOOSE i \in DOMAIN PROVINCIAS_PANAMA :
                               /\ Coincide(PROVINCIAS_PANAMA[i])
                               /\ \A j \in (i + 1)..Len(PROVINCIAS_PANAMA) :
                                      ~Coincide(PROVINCIAS_PANAMA[j])
             IN  PROVINCIAS_PANAMA[ultimo]
        ELSE prov

\* _validar_provincias.corregir_provincia
corregir_provincia(prov_) ==
    LET prov == Strip(prov_)
        Coincide(p) == \/ EsSubcadena(Lower(prov), Lower(p))
                       \/ EsSubcadena(Lower(p), Lower(prov))
    IN  IF EnLista(prov, PROVINCIAS_PANAMA) THEN prov
        ELSE IF \E i \in DOMAIN PROVINCIAS_PANAMA : Coincide(PROVINCIAS_PANAMA[i])
        THEN LET primero == CHOOSE i \in DOMAIN PROVINCIAS_PANAMA :
                               /\ Coincide(PROVINCIAS_PANAMA[i])
                               /\ \A j \in 1..(i - 1) : ~Coincide(PROVINCIAS_PANAMA[j])
             IN  PROVINCIAS_PANAMA[primero]
        ELSE prov

\* A row of a DataFrame with the four columns, under index label etiqueta
Fila(etiqueta, especie, cantidad, anio, provincia) ==
    [ etiqueta |-> etiqueta, Especie |-> especie, Cantidad |-> cantidad,
      Anio |-> anio, Provincia |-> provincia ]

\* The four field values of a row, without its label
Campos(f) == <<f.Especie, f.Cantidad, f.Anio, f.Provincia>>

\* The field values of a table, in row order
Datos(d) == [i \in DOMAIN d |-> Campos(d[i])]

\* cargar_excel, lines 86-91: a missing column is filled with "", then the four are selected
CeldaDe(leido, i, col) ==
    IF col \in leido.columnas THEN leido.filas[i][col] ELSE CTxt(Txt_vacio)

\* cargar_excel, lines 94-104: whether the normalisation raises
NormalizarFalla(leido) ==
    \E i \in DOMAIN leido.filas :
        \/ AstypeIntFalla(fillna0(to_numeric(CeldaDe(leido, i, "Cantidad"))))
        \/ AstypeIntFalla(fillna0(to_numeric(CeldaDe(leido, i, "Año"))))

\* cargar_excel, lines 86-104: df_temp as it is assigned to self.df
Normalizar(leido) ==
    [i \in DOMAIN leido.filas |->
        Fila(i - 1,
             Strip(astype_str(CeldaDe(leido, i, "Especie"))),
             astype_int(fillna0(to_numeric(CeldaDe(leido, i, "Cantidad")))),
             astype_int(fillna0(to_numeric(CeldaDe(leido, i, "Año")))),
             corregir_provincia(Strip(astype_str(CeldaDe(leido, i, "Provincia")))))]

\* self.df.to_excel(ruta, index=False): the four columns, no index column
to_excel(d) ==
    Archivo({"Especie", "Cantidad", "Año", "Provincia"},
            [i \in DOMAIN d |->
                [c \in {"Especie", "Cantidad", "Año", "Provincia"} |->
                    CASE c = "Especie" -> CTxt(d[i].Especie)
                      [] c = "Cantidad" -> CNum(10 * d[i].Cantidad)
                      [] c = "Año" -> CNum(10 * d[i].Anio)
                      [] c = "Provincia" -> CTxt(d[i].Provincia)]])

---------------------------------------------------------------------------
(* GestorAnimales (src/main.py) *)

Rutas == {"datos.xlsx"}

MSG_ESPECIE_VACIA == "Debe seleccionar una especie"
MSG_ESPECIE_INVALIDA == "Especie no válida. Debe seleccionar de la lista"
MSG_CANTIDAD == "La cantidad debe ser positiva"
MSG_ANIO == "El año debe estar entre 1900 y 2100"
MSG_PROVINCIA == "Provincia no válida"
MSG_INDICE == "Índice inválido"
MSG_SIN_RUTA == "No se especificó una ruta de archivo"
MSG_OK == ""

\* A call of a method, op(args), and the (éxito, mensaje) it returned
Retorno(op, args, ok, msg) == [op |-> op, args |-> args, ok |-> ok, msg |-> msg]

\* What calcular_estadisticas returns: {} (vacio) or the dictionary of its seven entries;
\* por_anio and por_provincia are sequences of [clave, suma] in the order of the dict
Estadisticas(promedio, total, registros, tendencia, proyecciones, por_anio, por_provincia) ==
    [ vacio |-> FALSE, promedio |-> promedio, total |-> total, registros |-> registros,
      tendencia |-> tendencia, proyecciones |-> proyecciones, por_anio |-> por_anio,
      por_provincia |-> por_provincia ]

DiccionarioVacio ==
    [ vacio |-> TRUE, promedio |-> 0, total |-> 0, registros |-> 0, tendencia |-> "",
      proyecciones |-> << >>, por_anio |-> << >>, por_provincia |-> << >> ]

\* The record of a query: the method, its arguments, the rows or the dictionary returned
Consulta(op, args, filas, est) == [op |-> op, args |-> args, filas |-> filas, est |-> est]

SinConsulta == Consulta("", << >>, << >>, DiccionarioVacio)

\* The record of a window handler: the handler, its argument and what the environment
\* did during it, how it ended ("retorno", or "excepcion" when an exception left it), the
\* dialog it showed ("info", "error" or none), the temporary files it created and whether
\* it reached the statements that remove them
Handler(op, args, fin, dialogo, creados, limpieza) ==
    [ op |-> op, args |-> args, fin |-> fin, dialogo |-> dialogo, creados |-> creados,
      limpieza |-> limpieza ]

SinHandler == Handler("", << >>, "retorno", "", {}, FALSE)

\* An open dialog of abrir_dialogo_modificar_eliminar: the position idx it was opened on
\* and fila, the four values of the row at that position when it was opened
Dialogo(idx, fila) == [abierto |-> TRUE, idx |-> idx, fila |-> fila]

Cerrado == [abierto |-> FALSE, idx |-> 0, fila |-> << >>]

SinDialogos == [k \in 1..MaxDialogos |-> Cerrado]

\* len(self.df)
len(d) == Len(d)

\* pd.concat([self.df, nueva_fila], ignore_index=True): the rows are relabelled 0..n-1
concat_ignore_index(d, f) ==
    LET todo == Append(d, f)
    IN  [i \in DOMAIN todo |-> [todo[i] EXCEPT !.etiqueta = i - 1]]

\* self.df.at[idx, ...] = ...: the row under label idx is overwritten; where no row
\* carries the label, pandas appends a row under it
at_asignar(d, idx, especie, cantidad, anio, provincia) ==
    IF \E i \in DOMAIN d : d[i].etiqueta = idx
    THEN [i \in DOMAIN d |->
            IF d[i].etiqueta = idx THEN Fila(idx, especie, cantidad, anio, provincia)
            ELSE d[i]]
    ELSE Append(d, Fila(idx, especie, cantidad, anio, provincia))

\* self.df.drop(idx): the rows labelled idx are removed, the others keep their labels
drop(d, idx) == SelectSeq(d, LAMBDA f : f.etiqueta # idx)

\* .reset_index(drop=True): the rows are relabelled 0..n-1
reset_index(d) == [i \in DOMAIN d |-> [d[i] EXCEPT !.etiqueta = i - 1]]

\* Mutant of ValidarAgregar: the province check is left out
M_ValidarAgregar_SinProvincia(especie, cantidad, anio, provincia) ==
    IF especie = << >> \/ Strip(especie) = << >> THEN MSG_ESPECIE_VACIA
    ELSE IF ~EnLista(especie, ESPECIES_PANAMA) THEN MSG_ESPECIE_INVALIDA
    ELSE IF cantidad < 0 THEN MSG_CANTIDAD
    ELSE IF ~(1900 <= anio /\ anio <= 2100) THEN MSG_ANIO
    ELSE MSG_OK

\* Mutant of ValidarAgregar: the count is checked before the species is looked up
M_ValidarAgregar_CantidadPrimero(especie, cantidad, anio, provincia) ==
    IF especie = << >> \/ Strip(especie) = << >> THEN MSG_ESPECIE_VACIA
    ELSE IF cantidad < 0 THEN MSG_CANTIDAD
    ELSE IF ~EnLista(especie, ESPECIES_PANAMA) THEN MSG_ESPECIE_INVALIDA
    ELSE IF ~(1900 <= anio /\ anio <= 2100) THEN MSG_ANIO
    ELSE IF ~EnLista(provincia, PROVINCIAS_PANAMA) THEN MSG_PROVINCIA
    ELSE MSG_OK

\* agregar_registro, lines 159-172: the message of the first failing check, or MSG_OK
ValidarAgregar(especie, cantidad, anio, provincia) ==
    IF especie = << >> \/ Strip(especie) = << >> THEN MSG_ESPECIE_VACIA
    ELSE IF ~EnLista(especie, ESPECIES_PANAMA) THEN MSG_ESPECIE_INVALIDA
    ELSE IF cantidad < 0 THEN MSG_CANTIDAD
    ELSE IF ~(1900 <= anio /\ anio <= 2100) THEN MSG_ANIO
    ELSE IF ~EnLista(provincia, PROVINCIAS_PANAMA) THEN MSG_PROVINCIA
    ELSE MSG_OK

\* Mutant of ValidarModificar: the fields are checked before the index
M_ValidarModificar_CamposPrimero(d, idx, especie, cantidad, anio, provincia) ==
    IF especie = << >> \/ Strip(especie) = << >> THEN MSG_ESPECIE_VACIA
    ELSE IF ~EnLista(especie, ESPECIES_PANAMA) THEN MSG_ESPECIE_INVALIDA
    ELSE IF cantidad < 0 THEN MSG_CANTIDAD
    ELSE IF ~(1900 <= anio /\ anio <= 2100) THEN MSG_ANIO
    ELSE IF ~EnLista(provincia, PROVINCIAS_PANAMA) THEN MSG_PROVINCIA
    ELSE IF ~(0 <= idx /\ idx < len(d)) THEN MSG_INDICE
    ELSE MSG_OK

\* modificar_registro, lines 192-205: the index check, then the field checks;
\* the message of the first failing check, or MSG_OK
ValidarModificar(d, idx, especie, cantidad, anio, provincia) ==
    IF ~(0 <= idx /\ idx < len(d)) THEN MSG_INDICE
    ELSE IF especie = << >> \/ Strip(especie) = << >> THEN MSG_ESPECIE_VACIA
    ELSE IF ~EnLista(especie, ESPECIES_PANAMA) THEN MSG_ESPECIE_INVALIDA
    ELSE IF cantidad < 0 THEN MSG_CANTIDAD
    ELSE IF ~(1900 <= anio /\ anio <= 2100) THEN MSG_ANIO
    ELSE IF ~EnLista(provincia, PROVINCIAS_PANAMA) THEN MSG_PROVINCIA
    ELSE MSG_OK

\* Mutant of AgregarFilas: the new row is put first
M_AgregarFilas_AlInicio(d, especie, cantidad, anio, provincia) ==
    reset_index(<<Fila(0, Strip(especie), cantidad, anio, provincia)>> \o d)

\* The rows agregar_registro leaves in self.df on success
AgregarFilas(d, especie, cantidad, anio, provincia) ==
    concat_ignore_index(d, Fila(0, Strip(especie), cantidad, anio, provincia))

\* Mutant of ModificarFilas: the Cantidad assignment is left out
M_ModificarFilas_SinCantidad(d, idx, especie, cantidad, anio, provincia) ==
    [i \in DOMAIN d |->
        IF d[i].etiqueta = idx
        THEN Fila(idx, Strip(especie), d[i].Cantidad, anio, provincia)
        ELSE d[i]]

\* The rows modificar_registro leaves in self.df on success
ModificarFilas(d, idx, especie, cantidad, anio, provincia) ==
    at_asignar(d, idx, Strip(especie), cantidad, anio, provincia)

\* Mutant of EliminarFilas: reset_index is left out
M_EliminarFilas_SinReset(d, idx) == drop(d, idx)

\* The rows eliminar_registro leaves in self.df on success
EliminarFilas(d, idx) == reset_index(drop(d, idx))

\* obtener_datos_especie: the rows whose Especie equals especie, in order, as a copy
Filtrar(d, especie) == SelectSeq(d, LAMBDA f : f.Especie = especie)

obtener_datos_especie(especie) == Filtrar(df, especie)

\* The characters of the model in ascending code point order (the order of Python's
\* comparison of str)
Caracteres ==
    <<"\t", "\n", " ", "+", "-",
      "0","1","2","3","4","5","6","7","8","9",
      "A","B","C","D","E","F","G","H","I","J","K","L","M","N","O","P","Q","R","S","T",
      "U","V","W","X","Y","Z",
      "a","b","c","d","e","f","g","h","i","j","k","l","m","n","o","p","q","r","s","t",
      "u","v","w","x","y","z",
      "Á","É","Í","Ñ","Ó","Ú","á","é","í","ñ","ó","ú">>

ord(c) == CHOOSE i \in DOMAIN Caracteres : Caracteres[i] = c

\* a < b for two texts (str.__lt__): the first differing character decides, a proper
\* prefix is smaller
RECURSIVE MenorTexto(_, _)
MenorTexto(a, b) ==
    IF b = << >> THEN FALSE
    ELSE IF a = << >> THEN TRUE
    ELSE IF Head(a) = Head(b) THEN MenorTexto(Tail(a), Tail(b))
    ELSE ord(Head(a)) < ord(Head(b))

\* sorted(...) of a collection of distinct texts
RECURSIVE sorted(_)
sorted(S) ==
    IF S = {} THEN << >>
    ELSE LET m == CHOOSE x \in S : \A y \in S \ {x} : MenorTexto(x, y)
         IN  <<m>> \o sorted(S \ {m})

\* obtener_especies on the table d: [] when empty, else the distinct values of the
\* Especie column, sorted. The column holds texts only (astype(str) on load, str
\* arguments on add and modify), so dropna() drops nothing.
obtener_especies(d) ==
    IF d = << >> THEN << >>
    ELSE sorted({d[i].Especie : i \in DOMAIN d})

\* The sum of the Cantidad column of some rows
RECURSIVE SumaCantidad(_)
SumaCantidad(filas) ==
    IF filas = << >> THEN 0 ELSE Head(filas).Cantidad + SumaCantidad(Tail(filas))

\* The integers of a set in ascending order (sort_index on the years)
RECURSIVE sort_index(_)
sort_index(S) ==
    IF S = {} THEN << >>
    ELSE LET m == CHOOSE x \in S : \A y \in S : x <= y
         IN  <<m>> \o sort_index(S \ {m})

\* Mutant of groupby_anio: the last count of a year stands for the year
M_groupby_anio_SinSumar(datos) ==
    LET claves == sort_index({datos[i].Anio : i \in DOMAIN datos})
    IN  [j \in DOMAIN claves |->
            LET grupo == SelectSeq(datos, LAMBDA f : f.Anio = claves[j])
            IN  [clave |-> claves[j], suma |-> grupo[Len(grupo)].Cantidad]]

\* datos.groupby("Año")["Cantidad"].sum().sort_index()
groupby_anio(datos) ==
    LET claves == sort_index({datos[i].Anio : i \in DOMAIN datos})
    IN  [j \in DOMAIN claves |->
            [clave |-> claves[j],
             suma |-> SumaCantidad(SelectSeq(datos, LAMBDA f : f.Anio = claves[j]))]]

\* Mutant of groupby_provincia: the first count of a province stands for the province
M_groupby_provincia_SinSumar(datos) ==
    LET claves == sorted({datos[i].Provincia : i \in DOMAIN datos})
    IN  [j \in DOMAIN claves |->
            [clave |-> claves[j],
             suma |-> SelectSeq(datos, LAMBDA f : f.Provincia = claves[j])[1].Cantidad]]

\* datos.groupby("Provincia")["Cantidad"].sum(), the groups in ascending key order
groupby_provincia(datos) ==
    LET claves == sorted({datos[i].Provincia : i \in DOMAIN datos})
    IN  [j \in DOMAIN claves |->
            [clave |-> claves[j],
             suma |-> SumaCantidad(SelectSeq(datos, LAMBDA f : f.Provincia = claves[j]))]]

RECURSIVE SumaSeq(_)
SumaSeq(s) == IF s = << >> THEN 0 ELSE Head(s) + SumaSeq(Tail(s))

\* np.polyfit(x, y, 1) on the years and sums of por_anio: the least-squares line, its
\* slope held as the fraction num / den (den > 0 when there are two distinct years) and
\* the sums that give its intercept
polyfit(por_anio) ==
    LET n == Len(por_anio)
        Sx == SumaSeq([j \in DOMAIN por_anio |-> por_anio[j].clave])
        Sy == SumaSeq([j \in DOMAIN por_anio |-> por_anio[j].suma])
        Sxx == SumaSeq([j \in DOMAIN por_anio |-> por_anio[j].clave * por_anio[j].clave])
        Sxy == SumaSeq([j \in DOMAIN por_anio |-> por_anio[j].clave * por_anio[j].suma])
    IN  [num |-> n * Sxy - Sx * Sy, den |-> n * Sxx - Sx * Sx, n |-> n, Sx |-> Sx, Sy |-> Sy]

\* The labels the chain of comparisons of pendiente can give for the fitted line. The
\* fit is computed in floating point: a slope that is exactly 5, 0 or -5 may come out a
\* rounding error above or below, so either neighbouring branch can be taken there.
Tendencias(coef) ==
    LET num == coef.num
        den == coef.den
    IN  CASE num > 5 * den -> {"Aumento significativo"}
          [] num = 5 * den -> {"Aumento significativo", "Aumento moderado"}
          [] num > 0 /\ num < 5 * den -> {"Aumento moderado"}
          [] num = 0 -> {"Aumento moderado", "Estable", "Disminución moderada"}
          [] num < 0 /\ num > (0 - 5) * den -> {"Disminución moderada"}
          [] num = (0 - 5) * den -> {"Disminución moderada", "Disminución significativa"}
          [] num < (0 - 5) * den -> {"Disminución significativa"}

\* int(round(np.polyval(coef, anio))): the line at anio is the fraction P / Q; the nearest
\* integer, and either neighbour when the line passes exactly half way between two
\* integers (there the rounding error of the floating-point value decides)
Redondeos(coef, anio) ==
    LET P == coef.num * (coef.n * anio - coef.Sx) + coef.den * coef.Sy
        Q == coef.n * coef.den
        q == P \div Q
        r == P % Q
    IN  IF 2 * r < Q THEN {q}
        ELSE IF 2 * r > Q THEN {q + 1}
        ELSE {q, q + 1}

\* max(0, valor)
Max0(valor) == IF valor > 0 THEN valor ELSE 0

\* Mutant of Proyeccion: the value is not clamped
M_Proyeccion_SinMax(anio_futuro, valor) == <<anio_futuro, valor>>

\* One entry of proyecciones: (año_futuro, max(0, valor))
Proyeccion(anio_futuro, valor) == <<anio_futuro, Max0(valor)>>

\* Mutant of TendenciaYProyecciones: a single year counts as a flat line
M_TendenciaYProyecciones_UnAnioEstable(por_anio) ==
    IF Len(por_anio) > 1
    THEN LET coef == polyfit(por_anio)
             ultimo_anio == por_anio[Len(por_anio)].clave
         IN  { <<t, <<Proyeccion(ultimo_anio + 1, v[1]), Proyeccion(ultimo_anio + 2, v[2]),
                     Proyeccion(ultimo_anio + 3, v[3])>> >> :
                 t \in Tendencias(coef),
                 v \in Redondeos(coef, ultimo_anio + 1) \X Redondeos(coef, ultimo_anio + 2)
                          \X Redondeos(coef, ultimo_anio + 3) }
    ELSE { <<"Estable", << >> >> }

\* calcular_estadisticas, the branch on len(por_año): the pairs (tendencia, proyecciones)
\* it can compute
TendenciaYProyecciones(por_anio) ==
    IF Len(por_anio) > 1
    THEN LET coef == polyfit(por_anio)
             ultimo_anio == por_anio[Len(por_anio)].clave
         IN  { <<t, <<Proyeccion(ultimo_anio + 1, v[1]), Proyeccion(ultimo_anio + 2, v[2]),
                     Proyeccion(ultimo_anio + 3, v[3])>> >> :
                 t \in Tendencias(coef),
                 v \in Redondeos(coef, ultimo_anio + 1) \X Redondeos(coef, ultimo_anio + 2)
                          \X Redondeos(coef, ultimo_anio + 3) }
    ELSE { <<"Datos insuficientes", << >> >> }

\* int(x) of the quotient a / b, b > 0: truncation toward zero
IntCociente(a, b) == IF a >= 0 THEN a \div b ELSE 0 - ((0 - a) \div b)

\* Mutant of calcular_estadisticas: the subset replaces the dataset
M_calcular_estadisticas_EnSitio(especie) ==
    LET datos == obtener_datos_especie(especie)
    IN  /\ df' = datos
        /\ consulta' = Consulta("calcular_estadisticas", <<especie>>, << >>, DiccionarioVacio)
        /\ UNCHANGED <<ruta_archivo, cambios_sin_guardar, disco, ret, p_df, p_msg,
                       p_entradas, p_ruta_archivo, temporales, ui, p_dialogos>>

calcular_estadisticas(especie) ==
    LET datos == obtener_datos_especie(especie)
    IN  /\ IF datos = << >>
           THEN consulta' = Consulta("calcular_estadisticas", <<especie>>, << >>,
                                     DiccionarioVacio)
           ELSE LET por_anio == groupby_anio(datos)
                IN  \E tp \in TendenciaYProyecciones(por_anio) :
                        consulta' =
                            Consulta("calcular_estadisticas", <<especie>>, << >>,
                                Estadisticas(
                                    IntCociente(SumaCantidad(datos), Len(datos)),
                                    SumaCantidad(datos),
                                    Len(datos),
                                    tp[1],
                                    tp[2],
                                    por_anio,
                                    groupby_provincia(datos)))
        /\ UNCHANGED <<df, ruta_archivo, cambios_sin_guardar, disco, ret, p_df, p_msg,
                       p_entradas, p_ruta_archivo, temporales, ui, p_dialogos>>

\* A call of obtener_datos_especie
LlamarObtenerDatosEspecie(especie) ==
    /\ consulta' = Consulta("obtener_datos_especie", <<especie>>,
                            obtener_datos_especie(especie), DiccionarioVacio)
    /\ UNCHANGED <<df, ruta_archivo, cambios_sin_guardar, disco, ret, p_df, p_msg,
                   p_entradas, p_ruta_archivo, temporales, ui, p_dialogos>>

agregar_registro(especie, cantidad, anio, provincia) ==
    LET msg == ValidarAgregar(especie, cantidad, anio, provincia)
    IN  IF msg # MSG_OK
        THEN /\ ret' = Retorno("agregar_registro", <<especie, cantidad, anio, provincia>>, FALSE, msg)
             /\ UNCHANGED <<df, ruta_archivo, cambios_sin_guardar, disco, ajenas>>
        ELSE /\ len(df) < MaxRows
             /\ df' = AgregarFilas(df, especie, cantidad, anio, provincia)
             /\ cambios_sin_guardar' = TRUE
             /\ ret' = Retorno("agregar_registro", <<especie, cantidad, anio, provincia>>, TRUE, "Registro agregado correctamente")
             /\ UNCHANGED <<ruta_archivo, disco, ajenas>>

modificar_registro(idx, especie, cantidad, anio, provincia) ==
    LET msg == ValidarModificar(df, idx, especie, cantidad, anio, provincia)
    IN  IF msg # MSG_OK
        THEN /\ ret' = Retorno("modificar_registro", <<idx, especie, cantidad, anio, provincia>>, FALSE, msg)
             /\ UNCHANGED <<df, ruta_archivo, cambios_sin_guardar, disco, ajenas>>
        ELSE /\ df' = ModificarFilas(df, idx, especie, cantidad, anio, provincia)
             /\ cambios_sin_guardar' = TRUE
             /\ ret' = Retorno("modificar_registro", <<idx, especie, cantidad, anio, provincia>>, TRUE, "Registro modificado correctamente")
             /\ UNCHANGED <<ruta_archivo, disco, ajenas>>

\* Mutant of eliminar_registro: cambios_sin_guardar is not set
M_eliminar_registro_SinMarcar(idx) ==
    IF ~(0 <= idx /\ idx < len(df))
    THEN /\ ret' = Retorno("eliminar_registro", <<idx>>, FALSE, MSG_INDICE)
         /\ UNCHANGED <<df, ruta_archivo, cambios_sin_guardar, disco, ajenas>>
    ELSE /\ df' = EliminarFilas(df, idx)
         /\ ret' = Retorno("eliminar_registro", <<idx>>, TRUE, "Registro eliminado correctamente")
         /\ UNCHANGED <<cambios_sin_guardar, ruta_archivo, disco, ajenas>>

eliminar_registro(idx) ==
    IF ~(0 <= idx /\ idx < len(df))
    THEN /\ ret' = Retorno("eliminar_registro", <<idx>>, FALSE, MSG_INDICE)
         /\ UNCHANGED <<df, ruta_archivo, cambios_sin_guardar, disco, ajenas>>
    ELSE /\ df' = EliminarFilas(df, idx)
         /\ cambios_sin_guardar' = TRUE
         /\ ret' = Retorno("eliminar_registro", <<idx>>, TRUE, "Registro eliminado correctamente")
         /\ UNCHANGED <<ruta_archivo, disco, ajenas>>

\* The file at a path: the model's disk holds the paths of Rutas, no other path has a file
ArchivoEn(ruta) == IF ruta \in DOMAIN disco THEN disco[ruta] ELSE NoExiste

\* The body of guardar_excel(ruta): what a call does to the manager and the disk.
\* escritura is what the write does: it succeeds ("ok"), it raises
\* before the file is touched ("rechazada": no permission, no such directory), or it
\* raises after the file was opened for writing ("interrumpida": a broken file is left).
EnGuardarExcel(ruta, escritura) ==
    LET ruta_final == IF ruta \in {None, ""} THEN ruta_archivo ELSE ruta
    IN  IF ruta_final \in {None, ""}
        THEN /\ ret' = Retorno("guardar_excel", <<ruta>>, FALSE, MSG_SIN_RUTA)
             /\ UNCHANGED <<df, ruta_archivo, cambios_sin_guardar, disco>>
        ELSE IF escritura = "ok"
        THEN /\ disco' = [disco EXCEPT ![ruta_final] = to_excel(df)]
             /\ ruta_archivo' = ruta_final
             /\ cambios_sin_guardar' = FALSE
             /\ ret' = Retorno("guardar_excel", <<ruta>>, TRUE, "Archivo guardado exitosamente")
             /\ UNCHANGED df
        ELSE /\ disco' = IF escritura = "interrumpida"
                         THEN [disco EXCEPT ![ruta_final] = Corrupto]
                         ELSE disco
             /\ ret' = Retorno("guardar_excel", <<ruta>>, FALSE, "Error al guardar: " \o escritura)
             /\ UNCHANGED <<df, ruta_archivo, cambios_sin_guardar>>

\* Mutant of guardar_excel: the path is remembered before the file is written
M_guardar_excel_RutaAntes(ruta, escritura) ==
    LET ruta_final == IF ruta \in {None, ""} THEN ruta_archivo ELSE ruta
    IN  IF ruta_final \in {None, ""}
        THEN /\ ret' = Retorno("guardar_excel", <<ruta>>, FALSE, MSG_SIN_RUTA)
             /\ UNCHANGED <<df, ruta_archivo, cambios_sin_guardar, disco, ajenas>>
        ELSE IF escritura = "ok"
        THEN /\ disco' = [disco EXCEPT ![ruta_final] = to_excel(df)]
             /\ ruta_archivo' = ruta_final
             /\ cambios_sin_guardar' = FALSE
             /\ ret' = Retorno("guardar_excel", <<ruta>>, TRUE, "Archivo guardado exitosamente")
             /\ UNCHANGED <<df, ajenas>>
        ELSE /\ disco' = IF escritura = "interrumpida"
                         THEN [disco EXCEPT ![ruta_final] = Corrupto]
                         ELSE disco
             /\ ruta_archivo' = ruta_final
             /\ ret' = Retorno("guardar_excel", <<ruta>>, FALSE, "Error al guardar: " \o escritura)
             /\ UNCHANGED <<df, cambios_sin_guardar, ajenas>>

\* guardar_excel(ruta), called on its own
guardar_excel(ruta, escritura) ==
    EnGuardarExcel(ruta, escritura) /\ UNCHANGED ajenas

\* The variables that _on_closing and the call of guardar_excel in it leave alone
sin_cerrar == <<p_df, p_msg, p_entradas, p_ruta_archivo, consulta, temporales, p_dialogos>>

\* InterfazPrincipal._on_closing. respuesta is the answer to askyesnocancel ("si", "no",
\* "cancelar"), ruta what asksaveasfilename returns ("" when the picker is cancelled) and
\* escritura what the write of guardar_excel does; the value guardar_excel returns is not
\* looked at. fin is "cerrada" when root.quit() and root.destroy() are reached.
_on_closing(respuesta, ruta, escritura) ==
    LET Termina(fin, dialogo) ==
            ui' = Handler("_on_closing",
                          <<respuesta, ruta, escritura, cambios_sin_guardar, ruta_archivo>>,
                          fin, dialogo, {}, FALSE)
    IN  IF ~cambios_sin_guardar
        THEN /\ Termina("cerrada", "")
             /\ UNCHANGED <<df, ruta_archivo, cambios_sin_guardar, disco, ret, sin_cerrar>>
        ELSE IF respuesta = "cancelar"
        THEN /\ Termina("retorno", "pregunta")
             /\ UNCHANGED <<df, ruta_archivo, cambios_sin_guardar, disco, ret, sin_cerrar>>
        ELSE IF respuesta = "no"
        THEN /\ Termina("cerrada", "pregunta")
             /\ UNCHANGED <<df, ruta_archivo, cambios_sin_guardar, disco, ret, sin_cerrar>>
        ELSE IF ruta_archivo \notin {None, ""}
        THEN /\ EnGuardarExcel(None, escritura)
             /\ Termina("cerrada", "pregunta")
             /\ UNCHANGED sin_cerrar
        ELSE IF ruta # ""
        THEN /\ EnGuardarExcel(ruta, escritura)
             /\ Termina("cerrada", "pregunta")
             /\ UNCHANGED sin_cerrar
        ELSE /\ Termina("retorno", "pregunta")
             /\ UNCHANGED <<df, ruta_archivo, cambios_sin_guardar, disco, ret, sin_cerrar>>

\* Mutant of cargar_excel: the path is remembered before the columns are normalised
M_cargar_excel_RutaAntes(ruta) ==
    IF LeerFalla(ArchivoEn(ruta))
    THEN /\ ret' = Retorno("cargar_excel", <<ruta>>, FALSE,
                           "Error al cargar: " \o ArchivoEn(ruta).estado)
         /\ UNCHANGED <<df, ruta_archivo, cambios_sin_guardar, disco, ajenas>>
    ELSE IF NormalizarFalla(read_excel(ArchivoEn(ruta)))
    THEN /\ ret' = Retorno("cargar_excel", <<ruta>>, FALSE,
                           "Error al cargar: Cannot convert non-finite values (NA or inf) to integer")
         /\ ruta_archivo' = ruta
         /\ UNCHANGED <<df, cambios_sin_guardar, disco, ajenas>>
    ELSE /\ df' = Normalizar(read_excel(ArchivoEn(ruta)))
         /\ ruta_archivo' = ruta
         /\ cambios_sin_guardar' = FALSE
         /\ ret' = Retorno("cargar_excel", <<ruta>>, TRUE,
                           "Archivo cargado: " \o ToString(len(df')) \o " registros")
         /\ UNCHANGED <<disco, ajenas>>

\* cargar_excel(ruta)
cargar_excel(ruta) ==
    IF LeerFalla(ArchivoEn(ruta))
    THEN /\ ret' = Retorno("cargar_excel", <<ruta>>, FALSE,
                           "Error al cargar: " \o ArchivoEn(ruta).estado)
         /\ UNCHANGED <<df, ruta_archivo, cambios_sin_guardar, disco, ajenas>>
    ELSE IF NormalizarFalla(read_excel(ArchivoEn(ruta)))
    THEN /\ ret' = Retorno("cargar_excel", <<ruta>>, FALSE,
                           "Error al cargar: Cannot convert non-finite values (NA or inf) to integer")
         /\ UNCHANGED <<df, ruta_archivo, cambios_sin_guardar, disco, ajenas>>
    ELSE /\ df' = Normalizar(read_excel(ArchivoEn(ruta)))
         /\ ruta_archivo' = ruta
         /\ cambios_sin_guardar' = FALSE
         /\ ret' = Retorno("cargar_excel", <<ruta>>, TRUE,
                           "Archivo cargado: " \o ToString(len(df')) \o " registros")
         /\ UNCHANGED <<disco, ajenas>>

---------------------------------------------------------------------------
(* proyecto.py: the add handler of the module-global variant *)

P_MSG_ESPECIE_VACIA == "Ingrese el nombre de la especie."
P_MSG_ESPECIE == "Especie no permitida. Especies permitidas: ..."
P_MSG_CANTIDAD == "Cantidad debe ser un número entero >= 0."
P_MSG_ANIO == "Año inválido. Debe tener formato de 4 dígitos, p.ej. 2045."
P_MSG_PROVINCIA == "Provincia inválida. Provincias permitidas: ..."

Mensaje(tipo, texto) == [tipo |-> tipo, texto |-> texto]

validar_especie(especie) == EnLista(especie, ESPECIES_PERMITIDAS)

validar_cantidad(cantidad_texto) ==
    IntParsea(cantidad_texto) /\ IntDe(cantidad_texto) >= 0

validar_anio(anio_texto) ==
    /\ IsDigit(anio_texto)
    /\ Len(anio_texto) = 4
    /\ 1000 <= IntDe(anio_texto)
    /\ IntDe(anio_texto) <= 9999

validar_provincia(prov) == EnLista(prov, PROVINCIAS_PANAMA)

\* agregar_animal, lines 193-207: the message of the first failing check, or MSG_OK
ValidarAnimal(especie, cantidad, anio, provincia) ==
    IF especie = << >> THEN P_MSG_ESPECIE_VACIA
    ELSE IF ~validar_especie(especie) THEN P_MSG_ESPECIE
    ELSE IF ~validar_cantidad(cantidad) THEN P_MSG_CANTIDAD
    ELSE IF ~validar_anio(anio) THEN P_MSG_ANIO
    ELSE IF ~validar_provincia(provincia) THEN P_MSG_PROVINCIA
    ELSE MSG_OK

\* The user types into the four entry fields of the add form
EscribirEntradas(nombre, cantidad, anio, provincia) ==
    /\ p_entradas' = <<nombre, cantidad, anio, provincia>>
    /\ UNCHANGED <<p_df, p_msg, df, ruta_archivo, cambios_sin_guardar, disco, ret,
                   p_ruta_archivo, consulta, temporales, ui, p_dialogos>>

\* limpiar_campos_agregar(): the four entry fields are emptied
EntradasLimpias == << << >>, << >>, << >>, << >> >>

\* agregar_animal(): reads the four entry fields; it returns nothing, ret records the
\* texts it read and the message it showed
agregar_animal ==
    LET especie == Strip(p_entradas[1])
        cantidad == Strip(p_entradas[2])
        anio == Strip(p_entradas[3])
        provincia == Strip(p_entradas[4])
        msg == ValidarAnimal(especie, cantidad, anio, provincia)
    IN  IF msg # MSG_OK
        THEN /\ p_msg' = Mensaje("error", msg)
             /\ ret' = Retorno("agregar_animal", p_entradas, FALSE, msg)
             /\ UNCHANGED <<p_df, p_entradas, df, ruta_archivo, cambios_sin_guardar,
                            disco, p_ruta_archivo, consulta, temporales, ui, p_dialogos>>
        ELSE /\ len(p_df) < MaxRows
             /\ p_df' = concat_ignore_index(p_df,
                            Fila(0, especie, IntDe(cantidad), IntDe(anio), provincia))
             /\ p_entradas' = EntradasLimpias
             /\ p_msg' = Mensaje("info", "Animal ingresado correctamente.")
             /\ ret' = Retorno("agregar_animal", p_entradas, TRUE, MSG_OK)
             /\ UNCHANGED <<df, ruta_archivo, cambios_sin_guardar, disco,
                            p_ruta_archivo, consulta, temporales, ui, p_dialogos>>

\* A missing value (the float NaN) in a column of texts of proyecto.py, which does not
\* convert the column to str
NaN == <<"NaN">>

\* A cell of the Especie or Provincia column as cargar_excel of proyecto.py leaves it:
\* a text stays as read, an empty cell stays missing (the sheets offered hold no number
\* in these columns)
P_Texto(c) == IF c.k = "txt" THEN c.s ELSE NaN

\* cargar_excel of proyecto.py, lines 106-123: df_temp as it is assigned to df, when both
\* conversions to int return
P_Normalizar(leido) ==
    [i \in DOMAIN leido.filas |->
        Fila(i - 1,
             P_Texto(CeldaDe(leido, i, "Especie")),
             astype_int(fillna0(to_numeric(CeldaDe(leido, i, "Cantidad")))),
             astype_int(fillna0(to_numeric(CeldaDe(leido, i, "Año")))),
             P_Texto(CeldaDe(leido, i, "Provincia")))]

\* df.to_excel(ruta, index=False) of proyecto.py: a missing value is an empty cell
P_to_excel(d) ==
    Archivo({"Especie", "Cantidad", "Año", "Provincia"},
            [i \in DOMAIN d |->
                [c \in {"Especie", "Cantidad", "Año", "Provincia"} |->
                    CASE c = "Especie" ->
                            IF d[i].Especie = NaN THEN CNaN ELSE CTxt(d[i].Especie)
                      [] c = "Cantidad" -> CNum(10 * d[i].Cantidad)
                      [] c = "Año" -> CNum(10 * d[i].Anio)
                      [] c = "Provincia" ->
                            IF d[i].Provincia = NaN THEN CNaN ELSE CTxt(d[i].Provincia)]])

\* == of two values of a column of texts, as pandas compares them: a missing value
\* equals nothing, itself included
IgualTexto(a, b) == a # NaN /\ b # NaN /\ a = b

\* condiciones of accion_eliminar and accion_modificar: the positions of the rows of d
\* whose four values equal those of fila
Coincidencias(d, fila) ==
    {i \in DOMAIN d : /\ IgualTexto(d[i].Especie, fila[1])
                      /\ d[i].Cantidad = fila[2]
                      /\ d[i].Anio = fila[3]
                      /\ IgualTexto(d[i].Provincia, fila[4])}

\* The least element of a non-empty set of integers (indices[0])
Primero(S) == CHOOSE i \in S : \A j \in S : i <= j

\* len(str(n)) of an integer n
RECURSIVE LenStr(_)
LenStr(n) ==
    IF n < 0 THEN 1 + LenStr(0 - n)
    ELSE IF n < 10 THEN 1
    ELSE 1 + LenStr(n \div 10)

\* int(s) of an entry text: blanks around the number are allowed
IntPython(s) == IntDe(Strip(s))
IntPythonFalla(s) == ~IntParsea(Strip(s))

\* The lowest free slot for a dialog, 0 when all are open
RanuraLibre ==
    IF \E k \in 1..MaxDialogos : ~p_dialogos[k].abierto
    THEN Primero({k \in 1..MaxDialogos : ~p_dialogos[k].abierto})
    ELSE 0

\* on_double_click -> abrir_dialogo_modificar_eliminar(idx) of proyecto.py on the row
\* selected in the table, which shows the current rows: fila is read and the dialog opens
abrir_dialogo_modificar_eliminar(idx) ==
    /\ RanuraLibre # 0
    /\ 0 <= idx /\ idx < Len(p_df)
    /\ p_dialogos' = [p_dialogos EXCEPT ![RanuraLibre] = Dialogo(idx, Campos(p_df[idx + 1]))]
    /\ ui' = Handler("abrir_dialogo_modificar_eliminar",
                     <<idx, << >>, Dialogo(idx, Campos(p_df[idx + 1]))>>,
                     "retorno", "", {}, FALSE)
    /\ UNCHANGED <<df, ruta_archivo, cambios_sin_guardar, disco, ret, p_df, p_msg,
                   p_entradas, p_ruta_archivo, consulta, temporales>>

\* Mutant of FilaDelDialogo: the row at the position the dialog was opened on
M_FilaDelDialogo_Posicional(d, dlg) == IF dlg.idx < Len(d) THEN dlg.idx + 1 ELSE 0

\* accion_eliminar and accion_modificar of the dialog: the position (from 1) of the row
\* they act on: the first row equal to fila, else the row at idx; 0 when df.index[idx]
\* raises IndexError
FilaDelDialogo(d, dlg) ==
    IF Coincidencias(d, dlg.fila) # {} THEN Primero(Coincidencias(d, dlg.fila))
    ELSE IF dlg.idx < Len(d) THEN dlg.idx + 1
    ELSE 0

\* accion_eliminar() of dialog k; confirmar is the answer to askyesno
accion_eliminar(k, confirmar) ==
    LET dlg == p_dialogos[k]
        args == <<k, << >>, dlg>>
        pos == FilaDelDialogo(p_df, dlg)
    IN  /\ dlg.abierto
        /\ IF ~confirmar
           THEN /\ ui' = Handler("accion_eliminar", args, "retorno", "cancelado", {}, FALSE)
                /\ UNCHANGED <<p_df, p_msg, p_dialogos>>
           ELSE IF pos = 0
           THEN /\ p_msg' = Mensaje("error", "No se pudo eliminar el registro.")
                /\ ui' = Handler("accion_eliminar", args, "retorno", "error", {}, FALSE)
                /\ UNCHANGED <<p_df, p_dialogos>>
           ELSE /\ p_df' = reset_index(drop(p_df, pos - 1))
                /\ p_msg' = Mensaje("info", "Registro eliminado.")
                /\ p_dialogos' = [p_dialogos EXCEPT ![k] = Cerrado]
                /\ ui' = Handler("accion_eliminar", args, "retorno", "info", {}, FALSE)
        /\ UNCHANGED <<df, ruta_archivo, cambios_sin_guardar, disco, ret, p_entradas,
                       p_ruta_archivo, consulta, temporales>>

\* accion_modificar of the dialog, lines 420-438: the message of the first failing check
ValidarDialogo(textos) ==
    IF IntPythonFalla(textos[2]) \/ IntPythonFalla(textos[3])
    THEN "Cantidad y Año deben ser números enteros."
    ELSE IF ~validar_especie(Strip(textos[1])) THEN P_MSG_ESPECIE
    ELSE IF ~validar_provincia(Strip(textos[4])) THEN P_MSG_PROVINCIA
    ELSE IF LenStr(IntPython(textos[3])) # 4
    THEN "Año inválido. Debe tener formato de 4 dígitos."
    ELSE MSG_OK

\* accion_modificar() of dialog k; textos are the texts of its four entries
accion_modificar(k, textos) ==
    LET dlg == p_dialogos[k]
        args == <<k, textos, dlg>>
        msg == ValidarDialogo(textos)
        pos == FilaDelDialogo(p_df, dlg)
    IN  /\ dlg.abierto
        /\ IF msg # MSG_OK
           THEN /\ p_msg' = Mensaje("error", msg)
                /\ ui' = Handler("accion_modificar", args, "retorno", "error", {}, FALSE)
                /\ UNCHANGED <<p_df, p_dialogos>>
           ELSE IF pos = 0
           THEN /\ p_msg' = Mensaje("error", "No se pudo guardar")
                /\ ui' = Handler("accion_modificar", args, "retorno", "error", {}, FALSE)
                /\ UNCHANGED <<p_df, p_dialogos>>
           ELSE /\ p_df' = at_asignar(p_df, pos - 1, Strip(textos[1]), IntPython(textos[2]),
                                      IntPython(textos[3]), Strip(textos[4]))
                /\ p_msg' = Mensaje("info", "Registro modificado.")
                /\ p_dialogos' = [p_dialogos EXCEPT ![k] = Cerrado]
                /\ ui' = Handler("accion_modificar", args, "retorno", "info", {}, FALSE)
        /\ UNCHANGED <<df, ruta_archivo, cambios_sin_guardar, disco, ret, p_entradas,
                       p_ruta_archivo, consulta, temporales>>

\* accion_eliminar_mod() of the modify panel; sel is the position of the row selected in
\* its table (-1: none), confirmar the answer to askyesno
accion_eliminar_mod(sel, confirmar) ==
    LET args == <<sel, << >>, Cerrado>>
    IN  /\ sel < Len(p_df)
        /\ IF sel = -1
           THEN /\ p_msg' = Mensaje("info", "Seleccione primero una fila a eliminar.")
                /\ ui' = Handler("accion_eliminar_mod", args, "retorno", "aviso", {}, FALSE)
                /\ UNCHANGED p_df
           ELSE IF ~confirmar
           THEN /\ ui' = Handler("accion_eliminar_mod", args, "retorno", "cancelado", {}, FALSE)
                /\ UNCHANGED <<p_df, p_msg>>
           ELSE /\ p_df' = reset_index(drop(p_df, sel))
                /\ p_msg' = Mensaje("info", "Registro eliminado.")
                /\ ui' = Handler("accion_eliminar_mod", args, "retorno", "info", {}, FALSE)
        /\ UNCHANGED <<df, ruta_archivo, cambios_sin_guardar, disco, ret, p_entradas,
                       p_ruta_archivo, consulta, temporales, p_dialogos>>

\* accion_modificar_mod() of the modify panel; sel is the position of the row selected
\* in its table (-1: none), textos the texts of its four entries
accion_modificar_mod(sel, textos) ==
    LET args == <<sel, textos, Cerrado>>
        msg == ValidarAnimal(Strip(textos[1]), Strip(textos[2]), Strip(textos[3]),
                             Strip(textos[4]))
    IN  /\ sel < Len(p_df)
        /\ IF sel = -1
           THEN /\ p_msg' = Mensaje("info", "Seleccione primero una fila a modificar.")
                /\ ui' = Handler("accion_modificar_mod", args, "retorno", "aviso", {}, FALSE)
                /\ UNCHANGED p_df
           ELSE IF msg # MSG_OK
           THEN /\ p_msg' = Mensaje("error", msg)
                /\ ui' = Handler("accion_modificar_mod", args, "retorno", "error", {}, FALSE)
                /\ UNCHANGED p_df
           ELSE /\ p_df' = at_asignar(p_df, sel, Strip(textos[1]), IntDe(Strip(textos[2])),
                                      IntDe(Strip(textos[3])), Strip(textos[4]))
                /\ p_msg' = Mensaje("info", "Registro modificado correctamente.")
                /\ ui' = Handler("accion_modificar_mod", args, "retorno", "info", {}, FALSE)
        /\ UNCHANGED <<df, ruta_archivo, cambios_sin_guardar, disco, ret, p_entradas,
                       p_ruta_archivo, consulta, temporales, p_dialogos>>

\* cargar_excel() of proyecto.py; ruta is the answer of the file dialog ("" when the
\* user cancels). Files in which a conversion to int raises (the column is then left as
\* read) are not offered to this variant.
p_cargar_excel(ruta) ==
    /\ ruta # "" => (LeerFalla(ArchivoEn(ruta))
                        \/ ~NormalizarFalla(read_excel(ArchivoEn(ruta))))
    /\ IF ruta = ""
       THEN /\ ui' = Handler("cargar_excel", <<ruta>>, "retorno", "", {}, FALSE)
            /\ UNCHANGED <<p_df, p_ruta_archivo, p_msg>>
       ELSE IF LeerFalla(ArchivoEn(ruta))
       THEN /\ p_msg' = Mensaje("error", "No se pudo cargar el archivo")
            /\ ui' = Handler("cargar_excel", <<ruta>>, "retorno", "error", {}, FALSE)
            /\ UNCHANGED <<p_df, p_ruta_archivo>>
       ELSE /\ p_df' = P_Normalizar(read_excel(ArchivoEn(ruta)))
            /\ p_ruta_archivo' = ruta
            /\ p_msg' = Mensaje("info", "Archivo cargado exitosamente.")
            /\ ui' = Handler("cargar_excel", <<ruta>>, "retorno", "info", {}, FALSE)
    /\ UNCHANGED <<df, ruta_archivo, cambios_sin_guardar, disco, ret, p_entradas,
                   consulta, temporales, p_dialogos>>

\* What a write of a file leaves on the disk
Escribir_en(ruta, archivo, escritura) ==
    CASE escritura = "ok" -> [disco EXCEPT ![ruta] = archivo]
      [] escritura = "interrumpida" -> [disco EXCEPT ![ruta] = Corrupto]
      [] escritura = "rechazada" -> disco

\* Mutant of p_guardar_excel: the first save is wrapped in try/except as well
M_p_guardar_excel_ConTry(ruta, escritura) ==
    /\ IF p_ruta_archivo \notin {None, ""}
       THEN /\ disco' = Escribir_en(p_ruta_archivo, P_to_excel(p_df), escritura)
            /\ p_msg' = IF escritura = "ok"
                        THEN Mensaje("info", "Cambios guardados en el archivo.")
                        ELSE Mensaje("error", "No se pudo guardar el archivo")
            /\ ui' = Handler("guardar_excel", <<ruta, escritura>>, "retorno",
                             IF escritura = "ok" THEN "info" ELSE "error", {}, FALSE)
            /\ UNCHANGED p_ruta_archivo
       ELSE IF ruta = ""
       THEN /\ ui' = Handler("guardar_excel", <<ruta, escritura>>, "retorno", "", {}, FALSE)
            /\ UNCHANGED <<disco, p_msg, p_ruta_archivo>>
       ELSE /\ disco' = Escribir_en(ruta, P_to_excel(p_df), escritura)
            /\ p_ruta_archivo' = IF escritura = "ok" THEN ruta ELSE p_ruta_archivo
            /\ p_msg' = IF escritura = "ok"
                        THEN Mensaje("info", "Archivo guardado exitosamente.")
                        ELSE Mensaje("error", "No se pudo guardar el archivo")
            /\ ui' = Handler("guardar_excel", <<ruta, escritura>>, "retorno",
                             IF escritura = "ok" THEN "info" ELSE "error", {}, FALSE)
    /\ UNCHANGED <<df, ruta_archivo, cambios_sin_guardar, ret, p_df, p_entradas,
                   consulta, temporales, p_dialogos>>

\* guardar_excel() of proyecto.py; ruta is the answer of the save dialog, asked for only
\* when no path is remembered; escritura is what the write does
p_guardar_excel(ruta, escritura) ==
    /\ IF p_ruta_archivo \notin {None, ""}
       THEN /\ disco' = Escribir_en(p_ruta_archivo, P_to_excel(p_df), escritura)
            /\ p_msg' = IF escritura = "ok"
                        THEN Mensaje("info", "Cambios guardados en el archivo.")
                        ELSE Mensaje("error", "No se pudo guardar el archivo")
            /\ ui' = Handler("guardar_excel", <<ruta, escritura>>, "retorno",
                             IF escritura = "ok" THEN "info" ELSE "error", {}, FALSE)
            /\ UNCHANGED p_ruta_archivo
       ELSE IF ruta = ""
       THEN /\ ui' = Handler("guardar_excel", <<ruta, escritura>>, "retorno", "", {}, FALSE)
            /\ UNCHANGED <<disco, p_msg, p_ruta_archivo>>
       ELSE IF escritura = "ok"
       THEN /\ disco' = Escribir_en(ruta, P_to_excel(p_df), escritura)
            /\ p_ruta_archivo' = ruta
            /\ p_msg' = Mensaje("info", "Archivo guardado exitosamente.")
            /\ ui' = Handler("guardar_excel", <<ruta, escritura>>, "retorno", "info", {},
                             FALSE)
       ELSE /\ disco' = Escribir_en(ruta, P_to_excel(p_df), escritura)
            /\ ui' = Handler("guardar_excel", <<ruta, escritura>>, "excepcion", "", {},
                             FALSE)
            /\ UNCHANGED <<p_msg, p_ruta_archivo>>
    /\ UNCHANGED <<df, ruta_archivo, cambios_sin_guardar, ret, p_df, p_entradas,
                   consulta, temporales, p_dialogos>>

\* The temporary chart file of generar_informe
P_GRAFICO == "grafico_especie.png"

\* generar_informe(especie) of proyecto.py. grafico: the chart file is written by
\* mostrar_grafico or by the fallback ("ok"), or the fallback raises too ("falla");
\* construccion: what doc.build does; borrado: what os.remove does
generar_informe(especie, grafico, construccion, borrado) ==
    LET args == <<especie, grafico, construccion, borrado>>
    IN  /\ IF Filtrar(p_df, especie) = << >>
           THEN /\ p_msg' = Mensaje("error", "No se encontraron registros para esa especie.")
                /\ ui' = Handler("generar_informe", args, "retorno", "error", {}, FALSE)
                /\ UNCHANGED temporales
           ELSE IF grafico = "falla"
           THEN /\ ui' = Handler("generar_informe", args, "excepcion", "", {}, FALSE)
                /\ UNCHANGED <<p_msg, temporales>>
           ELSE /\ p_msg' = IF construccion = "ok"
                            THEN Mensaje("info", "Informe generado")
                            ELSE Mensaje("error", "No se pudo generar el PDF")
                /\ temporales' = IF borrado = "ok"
                                 THEN temporales \ {P_GRAFICO}
                                 ELSE temporales \cup {P_GRAFICO}
                /\ ui' = Handler("generar_informe", args, "retorno",
                                 IF construccion = "ok" THEN "info" ELSE "error",
                                 {P_GRAFICO}, TRUE)
        /\ UNCHANGED <<df, ruta_archivo, cambios_sin_guardar, disco, ret, p_df,
                       p_entradas, p_ruta_archivo, consulta, p_dialogos>>

\* The sign the computed pendiente can have: a fitted slope that is exactly 0 may come
\* out of the floating-point fit a rounding error above or below 0
Signos(coef) ==
    IF coef.num > 0 THEN {1} ELSE IF coef.num < 0 THEN {-1} ELSE {-1, 0, 1}

\* generar_informe, the chain of comparisons of pendiente with 0
Conclusion(signo) ==
    IF signo > 0 THEN "La población tiende a aumentar."
    ELSE IF signo < 0 THEN "La población tiende a disminuir."
    ELSE "La población se mantiene estable."

\* Mutant of ProyeccionSimple: the magnitude of the value is kept
M_ProyeccionSimple_Magnitud(anio_fut, valor_fut) ==
    <<anio_fut, IF valor_fut < 0 THEN 0 - valor_fut ELSE valor_fut>>

\* One row of proyeccion_tabla: [año_fut, valor_fut]
ProyeccionSimple(anio_fut, valor_fut) == <<anio_fut, valor_fut>>

\* generar_informe of proyecto.py and of AppAnimales/funciones_pdf.py, from series_anual
\* to proyeccion_tabla: the conclusion and the table for the subset filtrado when the
\* computed slope has the sign signo and the three values of the line round to v
InformeSimple(filtrado, signo, v) ==
    LET series_anual == groupby_anio(filtrado)
    IN  IF Len(series_anual) > 1
        THEN LET ult_a == series_anual[Len(series_anual)].clave
             IN  [conclusion |-> Conclusion(signo),
                  proyeccion_tabla |-> <<ProyeccionSimple(ult_a + 1, v[1]),
                                         ProyeccionSimple(ult_a + 2, v[2]),
                                         ProyeccionSimple(ult_a + 3, v[3])>>]
        ELSE [conclusion |-> "No hay suficientes datos para proyectar tendencia.",
              proyeccion_tabla |-> << >>]

\* The sign of pendiente that a label of calcular_estadisticas stands for
SignoDeTendencia(tendencia) ==
    CASE tendencia \in {"Aumento significativo", "Aumento moderado"} -> 1
      [] tendencia \in {"Disminución significativa", "Disminución moderada"} -> -1
      [] OTHER -> 0

\* Both report computations on the rows of one species: calcular_estadisticas of
\* GestorAnimales and generar_informe of the simpler variant get the same years and sums,
\* so np.polyfit and np.polyval give both the same floating-point numbers. The dictionary
\* of calcular_estadisticas goes to consulta, the conclusion and table of generar_informe
\* to ui.
informes_de(especie) ==
    LET datos == obtener_datos_especie(especie)
        por_anio == groupby_anio(datos)
        coef == polyfit(por_anio)
        ultimo_anio == por_anio[Len(por_anio)].clave
    IN  /\ datos # << >>
        /\ IF Len(por_anio) > 1
           THEN \E signo \in Signos(coef),
                   v \in Redondeos(coef, ultimo_anio + 1) \X Redondeos(coef, ultimo_anio + 2)
                            \X Redondeos(coef, ultimo_anio + 3),
                   tendencia \in Tendencias(coef) :
                    /\ SignoDeTendencia(tendencia) = signo
                    /\ consulta' =
                           Consulta("calcular_estadisticas", <<especie>>, << >>,
                               Estadisticas(
                                   IntCociente(SumaCantidad(datos), Len(datos)),
                                   SumaCantidad(datos),
                                   Len(datos),
                                   tendencia,
                                   <<Proyeccion(ultimo_anio + 1, v[1]),
                                     Proyeccion(ultimo_anio + 2, v[2]),
                                     Proyeccion(ultimo_anio + 3, v[3])>>,
                                   por_anio,
                                   groupby_provincia(datos)))
                    /\ ui' = Handler("generar_informe",
                                     <<especie, datos, coef, signo,
                                       InformeSimple(datos, signo, v).conclusion,
                                       InformeSimple(datos, signo, v).proyeccion_tabla>>,
                                     "retorno", "", {}, FALSE)
           ELSE /\ consulta' =
                       Consulta("calcular_estadisticas", <<especie>>, << >>,
                           Estadisticas(
                               IntCociente(SumaCantidad(datos), Len(datos)),
                               SumaCantidad(datos),
                               Len(datos),
                               "Datos insuficientes",
                               << >>,
                               por_anio,
                               groupby_provincia(datos)))
                /\ ui' = Handler("generar_informe",
                                 <<especie, datos, coef, 0,
                                   InformeSimple(datos, 0, <<0, 0, 0>>).conclusion,
                                   InformeSimple(datos, 0, <<0, 0, 0>>).proyeccion_tabla>>,
                                 "retorno", "", {}, FALSE)
        /\ UNCHANGED <<df, ruta_archivo, cambios_sin_guardar, disco, ret, p_df, p_msg,
                       p_entradas, p_ruta_archivo, temporales, p_dialogos>>

---------------------------------------------------------------------------
(* InterfazPrincipal (src/main.py) *)

\* The temporary chart files of _generar_pdf
G_TENDENCIA == "grafico_tendencia.png"
G_PROVINCIAS == "grafico_provincias.png"

\* Mutant of _generar_pdf: the removal is in a finally clause
M_generar_pdf_Finally(especie, graficos, construccion, borrado) ==
    LET args == <<especie, graficos, construccion, borrado>>
        creados == CASE graficos = "falla_antes" -> {}
                     [] graficos = "falla_entre" -> {G_TENDENCIA}
                     [] graficos = "ok" -> {G_TENDENCIA, G_PROVINCIAS}
        exito == graficos = "ok" /\ construccion = "ok"
    IN  /\ IF Filtrar(df, especie) = << >>
           THEN /\ ui' = Handler("_generar_pdf", args, "retorno", "error", {}, FALSE)
                /\ UNCHANGED temporales
           ELSE /\ temporales' = IF borrado = "ok"
                                 THEN temporales \ creados
                                 ELSE temporales \cup creados
                /\ ui' = Handler("_generar_pdf", args, "retorno",
                                 IF exito THEN "info" ELSE "error", creados, TRUE)
        /\ UNCHANGED <<df, ruta_archivo, cambios_sin_guardar, disco, ret, p_df, p_msg,
                       p_entradas, p_ruta_archivo, consulta, p_dialogos>>

\* InterfazPrincipal._generar_pdf(especie). graficos: _generar_graficos_para_pdf writes
\* both files ("ok"), raises before the first savefig ("falla_antes") or after it
\* ("falla_entre"); construccion: what doc.build does; borrado: what os.remove does
generar_pdf(especie, graficos, construccion, borrado) ==
    LET args == <<especie, graficos, construccion, borrado>>
        creados == CASE graficos = "falla_antes" -> {}
                     [] graficos = "falla_entre" -> {G_TENDENCIA}
                     [] graficos = "ok" -> {G_TENDENCIA, G_PROVINCIAS}
        exito == graficos = "ok" /\ construccion = "ok"
    IN  /\ IF Filtrar(df, especie) = << >>
           THEN /\ ui' = Handler("_generar_pdf", args, "retorno", "error", {}, FALSE)
                /\ UNCHANGED temporales
           ELSE IF exito
           THEN /\ temporales' = IF borrado = "ok"
                                 THEN temporales \ creados
                                 ELSE temporales \cup creados
                /\ ui' = Handler("_generar_pdf", args, "retorno", "info", creados, TRUE)
           ELSE /\ temporales' = temporales \cup creados
                /\ ui' = Handler("_generar_pdf", args, "retorno", "error", creados, FALSE)
        /\ UNCHANGED <<df, ruta_archivo, cambios_sin_guardar, disco, ret, p_df, p_msg,
                       p_entradas, p_ruta_archivo, consulta, p_dialogos>>

---------------------------------------------------------------------------
(* Inputs *)

Txt_Jaguar_con_blancos == <<" ","J","a","g","u","a","r"," ">>
Txt_colon_minusculas == <<"c","o","l","ó","n">>
Txt_panama_oeste_minusculas == <<"p","a","n","a","m","á"," ","o","e","s","t","e">>

\* Field tuples offered to agregar_registro and modificar_registro: two that pass every
\* check and differ in every field, and tuples failing one or several checks
EntradaA == <<Jaguar, 5, 2020, Colon>>
EntradaB == <<Rana_Dorada, 0, 1900, Panama_Oeste>>

EntradasValidas == {EntradaA, EntradaB}

\* One tuple for each check that fails first; the first four fail later checks too
EntradaSinEspecie == <<Txt_vacio, -1, 1899, Txt_Narnia>>
EntradaEspecieAjena == <<Txt_Gato, -1, 2101, Txt_Narnia>>
EntradaNegativa == <<Jaguar, -1, 1899, Txt_Narnia>>
EntradaAnioBajo == <<Jaguar, 5, 1899, Txt_Narnia>>
EntradaProvinciaAjena == <<Jaguar, 5, 2100, Txt_colon_minusculas>>

EntradasUnaPorFallo ==
    { EntradaSinEspecie, EntradaEspecieAjena, EntradaNegativa, EntradaAnioBajo,
      EntradaProvinciaAjena }

EntradasInvalidas ==
    EntradasUnaPorFallo
        \cup { <<Txt_blancos, 5, 2020, Colon>>,
               <<Txt_Jaguar_con_blancos, 5, 2020, Colon>>,
               <<Rana_Dorada, 0, 2101, Colon>> }

EntradasRegistro == EntradasValidas \cup EntradasInvalidas

\* Index arguments: below, inside and above the rows of any table of the model
Indices == -1..(MaxRows + 1)

\* Arguments offered to modificar_registro: the valid tuples at every index from 0,
\* each kind of invalid tuple at index 0, a valid and an invalid tuple at the two
\* extreme indices
EntradasModificar ==
    ((0..MaxRows) \X EntradasValidas)
        \cup ({0} \X EntradasUnaPorFallo)
        \cup ({-1, MaxRows + 1} \X {EntradaA, EntradaEspecieAjena})

\* Spreadsheet files found on the disk at start
HojaSinEspecie ==
    Archivo({"Cantidad", "Año", "Provincia"},
            << [c \in {"Cantidad", "Año", "Provincia"} |->
                   CASE c = "Cantidad" -> CNum(30)
                     [] c = "Año" -> CNum(20210)
                     [] c = "Provincia" -> CTxt(Txt_colon_minusculas)] >>)

HojaSinProvincia ==
    Archivo({"Especie", "Cantidad", "Notas"},
            << [c \in {"Especie", "Cantidad", "Notas"} |->
                   CASE c = "Especie" -> CTxt(Txt_Jaguar_con_blancos)
                     [] c = "Cantidad" -> CTxt(Txt_abc)
                     [] c = "Notas" -> CTxt(Txt_abc)] >>)

HojaTres ==
    Archivo({"Especie", "Cantidad", "Año", "Provincia"},
            << [c \in {"Especie", "Cantidad", "Año", "Provincia"} |->
                   CASE c = "Especie" -> CTxt(Rana_Dorada)
                     [] c = "Cantidad" -> CNum(25)
                     [] c = "Año" -> CNum(20200)
                     [] c = "Provincia" -> CTxt(Txt_panama_oeste_minusculas)],
               [c \in {"Especie", "Cantidad", "Año", "Provincia"} |->
                   CASE c = "Especie" -> CNaN
                     [] c = "Cantidad" -> CTxt(<<"-","4">>)
                     [] c = "Año" -> CTxt(<<"2","0","2","1">>)
                     [] c = "Provincia" -> CTxt(Txt_Narnia)],
               [c \in {"Especie", "Cantidad", "Año", "Provincia"} |->
                   CASE c = "Especie" -> CTxt(Tortuga_Carey)
                     [] c = "Cantidad" -> CNum(70)
                     [] c = "Año" -> CNaN
                     [] c = "Provincia" -> CTxt(Veraguas)] >>)

HojaInf ==
    Archivo({"Especie", "Cantidad", "Año", "Provincia"},
            << [c \in {"Especie", "Cantidad", "Año", "Provincia"} |->
                   CASE c = "Especie" -> CTxt(Jaguar)
                     [] c = "Cantidad" -> CTxt(Txt_inf)
                     [] c = "Año" -> CNum(20200)
                     [] c = "Provincia" -> CTxt(Colon)] >>)

ArchivosIniciales == {NoExiste, HojaSinEspecie, HojaSinProvincia, HojaTres, HojaInf}

\* A row of a complete sheet
FilaHoja(especie, cantidad, anio, provincia) ==
    [c \in {"Especie", "Cantidad", "Año", "Provincia"} |->
        CASE c = "Especie" -> CTxt(especie)
          [] c = "Cantidad" -> CNum(10 * cantidad)
          [] c = "Año" -> CNum(10 * anio)
          [] c = "Provincia" -> CTxt(provincia)]

\* Sheets for the statistics. HojaLineal: yearly sums 10, 20, 30 of one species, the last
\* year in two records. HojaUnAnio: a species with two records of one year, another
\* falling from 100 to 10. HojaBordes: slopes 0, 5 and 1/2 (a projection half way
\* between two integers).
HojaLineal ==
    Archivo({"Especie", "Cantidad", "Año", "Provincia"},
            << FilaHoja(Jaguar, 10, 2020, Colon), FilaHoja(Jaguar, 12, 2022, Darien),
               FilaHoja(Jaguar, 20, 2021, Colon), FilaHoja(Jaguar, 18, 2022, Colon) >>)

HojaUnAnio ==
    Archivo({"Especie", "Cantidad", "Año", "Provincia"},
            << FilaHoja(Jaguar, 5, 2020, Colon), FilaHoja(Rana_Dorada, 100, 2020, Colon),
               FilaHoja(Jaguar, 7, 2020, Darien), FilaHoja(Rana_Dorada, 10, 2021, Colon) >>)

HojaBordes ==
    Archivo({"Especie", "Cantidad", "Año", "Provincia"},
            << FilaHoja(Jaguar, 10, 2020, Colon), FilaHoja(Jaguar, 10, 2021, Colon),
               FilaHoja(Rana_Dorada, 0, 2020, Colon), FilaHoja(Rana_Dorada, 5, 2021, Colon),
               FilaHoja(Tortuga_Carey, 1, 2020, Colon),
               FilaHoja(Tortuga_Carey, 2, 2022, Colon) >>)

ArchivosEstadisticas == {HojaLineal, HojaUnAnio, HojaBordes}

\* More sheets for the statistics. HojaBajas: slope -5 and three equal yearly sums.
\* HojaPromedio: counts 2, 3, 3 (mean 8/3) with yearly sums 5 and 3, and a species
\* falling from 9 to 3, whose line is below zero in the projected years.
HojaBajas ==
    Archivo({"Especie", "Cantidad", "Año", "Provincia"},
            << FilaHoja(Jaguar, 5, 2020, Colon), FilaHoja(Jaguar, 0, 2021, Colon),
               FilaHoja(Rana_Dorada, 4, 2020, Colon), FilaHoja(Rana_Dorada, 4, 2021, Darien),
               FilaHoja(Rana_Dorada, 4, 2022, Colon) >>)

HojaPromedio ==
    Archivo({"Especie", "Cantidad", "Año", "Provincia"},
            << FilaHoja(Jaguar, 2, 2020, Darien), FilaHoja(Rana_Dorada, 9, 2020, Colon),
               FilaHoja(Jaguar, 3, 2021, Colon), FilaHoja(Jaguar, 3, 2020, Colon),
               FilaHoja(Rana_Dorada, 3, 2021, Colon) >>)

ArchivosResumen == {HojaLineal, HojaBordes, HojaBajas, HojaPromedio}

\* Province texts found in files: listed names, listed names in other letter case or
\* with blanks around, parts of listed names, texts that contain a listed name, texts
\* that match nothing, and the empty text
TextosProvincia ==
    { Colon, Panama, Panama_Oeste, Los_Santos,
      Txt_colon_minusculas, Txt_panama_oeste_minusculas,
      <<"P","A","N","A","M","Á">>, <<"v","e","r","a","g","u","a","s">>,
      <<" ","C","o","l","ó","n"," ">>, <<"P","a","n">>, <<"o">>, <<"O","e","s","t","e">>,
      <<"s","a","n","t","o","s">>, <<"C","o","l","ó","n"," ","C","i","t","y">>,
      Txt_Narnia, Txt_vacio }

\* A sheet of two rows with the province texts t1 and t2
HojaProvincias(t1, t2) ==
    Archivo({"Especie", "Cantidad", "Año", "Provincia"},
            << FilaHoja(Jaguar, 1, 2020, t1), FilaHoja(Rana_Dorada, 2, 2021, t2) >>)

ArchivosProvincias == {HojaProvincias(t1, t2) : t1 \in TextosProvincia, t2 \in TextosProvincia}

\* A sheet with an exact duplicate: the first and the third row are equal
HojaDuplicados ==
    Archivo({"Especie", "Cantidad", "Año", "Provincia"},
            << FilaHoja(Jaguar, 5, 2020, Colon), FilaHoja(Rana_Dorada, 2, 2021, Darien),
               FilaHoja(Jaguar, 5, 2020, Colon) >>)

\* A sheet of two equal rows whose Especie cell is empty
HojaSinValor ==
    Archivo({"Especie", "Cantidad", "Año", "Provincia"},
            << [FilaHoja(Jaguar, 1, 2020, Colon) EXCEPT !["Especie"] = CNaN],
               [FilaHoja(Jaguar, 1, 2020, Colon) EXCEPT !["Especie"] = CNaN] >>)

\* Texts typed into the entries while dialogs are open: a valid record and a species
\* that is not allowed
TextosDialogo ==
    { <<Tortuga_Carey, <<"7">>, <<"2","0","4","5">>, Colon>>,
      <<Txt_Gato, <<"5">>, <<"2","0","2","0">>, Colon>> }

\* Texts typed into the entries of the modify panel and of the dialog: a valid record, a
\* negative count, and a species that is not allowed
TextosModificar ==
    { <<Tortuga_Carey, <<"7">>, <<"2","0","4","5">>, Colon>>,
      <<Jaguar, <<"-","5">>, <<"2","0","2","0">>, Colon>>,
      <<Txt_Gato, <<"5">>, <<"2","0","2","0">>, Colon>> }

\* Species asked for: three that occur in the sheets and one that never occurs
EspeciesConsulta == {Jaguar, Rana_Dorada, Tortuga_Carey, Txt_Gato}

RutasCargar == Rutas \cup {"falta.xlsx"}
RutasGuardar == Rutas \cup {None}
Escrituras == {"ok", "rechazada", "interrumpida"}

\* Entry texts offered to agregar_animal
TextosAnimal ==
    { <<Jaguar, <<"5">>, <<"2","0","4","5">>, Colon>>,
      <<Txt_Jaguar_con_blancos, <<"0">>, <<"1","0","0","0">>, Panama>>,
      <<Txt_blancos, <<"-","1">>, <<"9","9","9">>, Txt_Narnia>>,
      <<Rana_Dorada, <<"5">>, <<"2","0","4","5">>, Colon>>,
      <<Jaguar, <<"-","1">>, <<"0","9","9","9">>, Txt_Narnia>>,
      <<Jaguar, Txt_abc, <<"2","0","4","5">>, Colon>>,
      <<Jaguar, <<"5">>, <<"0","9","9","9">>, Txt_Narnia>>,
      <<Jaguar, <<"5">>, <<"2","0","4","5">>, Txt_colon_minusculas>> }

---------------------------------------------------------------------------
(* Specifications *)

\* GestorAnimales.__init__, the globals of proyecto.py, and the disk as found
Init ==
    /\ df = << >>
    /\ ruta_archivo = None
    /\ cambios_sin_guardar = FALSE
    /\ disco \in [Rutas -> ArchivosIniciales]
    /\ ret = Retorno("__init__", << >>, TRUE, MSG_OK)
    /\ p_df = << >>
    /\ p_msg = Mensaje("", "")
    /\ p_entradas = EntradasLimpias
    /\ p_ruta_archivo = None
    /\ consulta = SinConsulta
    /\ temporales = {}
    /\ ui = SinHandler
    /\ p_dialogos = SinDialogos

Agregar == \E t \in EntradasRegistro : agregar_registro(t[1], t[2], t[3], t[4])

Modificar ==
    \E m \in EntradasModificar :
        modificar_registro(m[1], m[2][1], m[2][2], m[2][3], m[2][4])

Eliminar == \E idx \in Indices : eliminar_registro(idx)

Guardar == \E ruta \in RutasGuardar, escritura \in Escrituras : guardar_excel(ruta, escritura)

Cargar == \E ruta \in RutasCargar : cargar_excel(ruta)

Escribir == \E t \in TextosAnimal : EscribirEntradas(t[1], t[2], t[3], t[4])

\* The calls a user of GestorAnimales can make, in any order
Next == Agregar \/ Modificar \/ Eliminar \/ Guardar \/ Cargar

Spec == Init /\ [][Next]_vars

\* The statistics: datasets loaded from the sheets for the statistics or built by
\* agregar_registro, and the two queries
InitEstadisticas ==
    /\ df = << >>
    /\ ruta_archivo = None
    /\ cambios_sin_guardar = FALSE
    /\ disco \in [Rutas -> ArchivosEstadisticas]
    /\ ret = Retorno("__init__", << >>, TRUE, MSG_OK)
    /\ p_df = << >>
    /\ p_msg = Mensaje("", "")
    /\ p_entradas = EntradasLimpias
    /\ p_ruta_archivo = None
    /\ consulta = SinConsulta
    /\ temporales = {}
    /\ ui = SinHandler
    /\ p_dialogos = SinDialogos

Calcular == \E especie \in EspeciesConsulta : calcular_estadisticas(especie)

ObtenerDatos == \E especie \in EspeciesConsulta : LlamarObtenerDatosEspecie(especie)

NextEstadisticas == Agregar \/ Cargar \/ Calcular \/ ObtenerDatos

SpecEstadisticas == InitEstadisticas /\ [][NextEstadisticas]_vars

\* The add operation of both variants
NextAgregar == Agregar \/ Escribir \/ agregar_animal

SpecAgregar == Init /\ [][NextAgregar]_vars

\* Loading files with all kinds of province texts, saving the dataset and loading again
InitProvincias ==
    /\ df = << >>
    /\ ruta_archivo = None
    /\ cambios_sin_guardar = FALSE
    /\ disco \in [Rutas -> ArchivosProvincias]
    /\ ret = Retorno("__init__", << >>, TRUE, MSG_OK)
    /\ p_df = << >>
    /\ p_msg = Mensaje("", "")
    /\ p_entradas = EntradasLimpias
    /\ p_ruta_archivo = None
    /\ consulta = SinConsulta
    /\ temporales = {}
    /\ ui = SinHandler
    /\ p_dialogos = SinDialogos

NextProvincias == Cargar \/ Guardar

SpecProvincias == InitProvincias /\ [][NextProvincias]_vars

\* The statistics of sheets with slopes on and off the thresholds
InitResumen ==
    /\ df = << >>
    /\ ruta_archivo = None
    /\ cambios_sin_guardar = FALSE
    /\ disco \in [Rutas -> ArchivosResumen]
    /\ ret = Retorno("__init__", << >>, TRUE, MSG_OK)
    /\ p_df = << >>
    /\ p_msg = Mensaje("", "")
    /\ p_entradas = EntradasLimpias
    /\ p_ruta_archivo = None
    /\ consulta = SinConsulta
    /\ temporales = {}
    /\ ui = SinHandler
    /\ p_dialogos = SinDialogos

NextResumen == Cargar \/ Eliminar \/ Calcular

SpecResumen == InitResumen /\ [][NextResumen]_vars

\* The windows that write reports: both programs load a file and generate the report of a
\* species
ArchivosInformes == {HojaSinProvincia, HojaTres, HojaLineal}
EspeciesInforme == {Jaguar, Rana_Dorada, Txt_Gato}
ResultadosGraficos == {"ok", "falla_antes", "falla_entre"}
Resultados == {"ok", "falla"}

InitInformes ==
    /\ df = << >>
    /\ ruta_archivo = None
    /\ cambios_sin_guardar = FALSE
    /\ disco \in [Rutas -> ArchivosInformes]
    /\ ret = Retorno("__init__", << >>, TRUE, MSG_OK)
    /\ p_df = << >>
    /\ p_msg = Mensaje("", "")
    /\ p_entradas = EntradasLimpias
    /\ p_ruta_archivo = None
    /\ consulta = SinConsulta
    /\ temporales = {}
    /\ ui = SinHandler
    /\ p_dialogos = SinDialogos

PCargar == \E ruta \in RutasCargar \cup {""} : p_cargar_excel(ruta)

GenerarPdf ==
    \E especie \in EspeciesInforme, graficos \in ResultadosGraficos,
       construccion \in Resultados, borrado \in Resultados :
        generar_pdf(especie, graficos, construccion, borrado)

GenerarInforme ==
    \E especie \in EspeciesInforme, grafico \in Resultados,
       construccion \in Resultados, borrado \in Resultados :
        generar_informe(especie, grafico, construccion, borrado)

NextInformes == Cargar \/ PCargar \/ GenerarPdf \/ GenerarInforme

SpecInformes == InitInformes /\ [][NextInformes]_vars

\* Loading and saving in both programs
ArchivosArchivos == {NoExiste, HojaSinProvincia, HojaTres}

InitArchivos ==
    /\ df = << >>
    /\ ruta_archivo = None
    /\ cambios_sin_guardar = FALSE
    /\ disco \in [Rutas -> ArchivosArchivos]
    /\ ret = Retorno("__init__", << >>, TRUE, MSG_OK)
    /\ p_df = << >>
    /\ p_msg = Mensaje("", "")
    /\ p_entradas = EntradasLimpias
    /\ p_ruta_archivo = None
    /\ consulta = SinConsulta
    /\ temporales = {}
    /\ ui = SinHandler
    /\ p_dialogos = SinDialogos

PGuardar == \E ruta \in Rutas \cup {""}, escritura \in Escrituras : p_guardar_excel(ruta, escritura)

NextArchivos == Cargar \/ Guardar \/ PCargar \/ PGuardar

SpecArchivos == InitArchivos /\ [][NextArchivos]_vars

\* Modifying and deleting. main.py and proyecto.py are two programs: a run is a run of
\* one of them, so the actions of each are offered while the other has done nothing.
InitModificar ==
    /\ df = << >>
    /\ ruta_archivo = None
    /\ cambios_sin_guardar = FALSE
    /\ disco \in [Rutas -> {HojaDuplicados, HojaSinValor}]
    /\ ret = Retorno("__init__", << >>, TRUE, MSG_OK)
    /\ p_df = << >>
    /\ p_msg = Mensaje("", "")
    /\ p_entradas = EntradasLimpias
    /\ p_ruta_archivo = None
    /\ consulta = SinConsulta
    /\ temporales = {}
    /\ ui = SinHandler
    /\ p_dialogos = SinDialogos

EnGestor == ui = SinHandler
EnProyecto == ret.op = "__init__"

GestorAgregar == EnGestor /\ Agregar
GestorModificar == EnGestor /\ Modificar
GestorCargar == EnGestor /\ Cargar
ProyectoCargar == EnProyecto /\ PCargar

AbrirDialogo == \E idx \in 0..MaxRows : EnProyecto /\ abrir_dialogo_modificar_eliminar(idx)

DialogoModificar ==
    \E k \in 1..MaxDialogos, textos \in TextosModificar :
        EnProyecto /\ accion_modificar(k, textos)

PanelModificar ==
    \E sel \in -1..MaxRows, textos \in TextosModificar :
        EnProyecto /\ accion_modificar_mod(sel, textos)

NextModificar ==
    \/ GestorAgregar
    \/ GestorModificar
    \/ GestorCargar
    \/ ProyectoCargar
    \/ AbrirDialogo
    \/ DialogoModificar
    \/ PanelModificar

SpecModificar == InitModificar /\ [][NextModificar]_vars

\* The dialogs of proyecto.py next to the modify panel: rows are changed and removed
\* while dialogs are open
DialogoEliminar == \E k \in 1..MaxDialogos, confirmar \in BOOLEAN : accion_eliminar(k, confirmar)

DialogoCambiar == \E k \in 1..MaxDialogos, textos \in TextosDialogo : accion_modificar(k, textos)

PanelEliminar == \E sel \in -1..MaxRows, confirmar \in BOOLEAN : accion_eliminar_mod(sel, confirmar)

PanelCambiar == \E sel \in -1..MaxRows, textos \in TextosDialogo : accion_modificar_mod(sel, textos)

NextDialogos ==
    PCargar \/ AbrirDialogo \/ DialogoEliminar \/ DialogoCambiar \/ PanelEliminar \/ PanelCambiar

SpecDialogos == InitModificar /\ [][NextDialogos]_vars

\* Closing the window of main.py: rows are added and deleted, files loaded and saved, and
\* the window is asked to close; after root.destroy() no handler runs
Respuestas == {"si", "no", "cancelar"}
RutasElegidas == Rutas \cup {""}

InitCierre ==
    /\ df = << >>
    /\ ruta_archivo = None
    /\ cambios_sin_guardar = FALSE
    /\ disco \in [Rutas -> {NoExiste, HojaTres}]
    /\ ret = Retorno("__init__", << >>, TRUE, MSG_OK)
    /\ p_df = << >>
    /\ p_msg = Mensaje("", "")
    /\ p_entradas = EntradasLimpias
    /\ p_ruta_archivo = None
    /\ consulta = SinConsulta
    /\ temporales = {}
    /\ ui = SinHandler
    /\ p_dialogos = SinDialogos

EnMarcha == ui.fin # "cerrada"

CierreAgregar == \E t \in EntradasValidas : EnMarcha /\ agregar_registro(t[1], t[2], t[3], t[4])

CierreEliminar == \E idx \in Indices : EnMarcha /\ eliminar_registro(idx)

CierreGuardar == \E ruta \in RutasGuardar, escritura \in Escrituras : EnMarcha /\ guardar_excel(ruta, escritura)

CierreCargar == \E ruta \in RutasCargar : EnMarcha /\ cargar_excel(ruta)

Cerrar ==
    \E respuesta \in Respuestas, ruta \in RutasElegidas, escritura \in Escrituras :
        EnMarcha /\ _on_closing(respuesta, ruta, escritura)

NextCierre == CierreAgregar \/ CierreEliminar \/ CierreGuardar \/ CierreCargar \/ Cerrar

SpecCierre == InitCierre /\ [][NextCierre]_vars

\* The report computations of the two variants on the same rows
ArchivosVariantes == {HojaLineal, HojaUnAnio, HojaBordes, HojaBajas, HojaPromedio}

InitVariantes ==
    /\ df = << >>
    /\ ruta_archivo = None
    /\ cambios_sin_guardar = FALSE
    /\ disco \in [Rutas -> ArchivosVariantes]
    /\ ret = Retorno("__init__", << >>, TRUE, MSG_OK)
    /\ p_df = << >>
    /\ p_msg = Mensaje("", "")
    /\ p_entradas = EntradasLimpias
    /\ p_ruta_archivo = None
    /\ consulta = SinConsulta
    /\ temporales = {}
    /\ ui = SinHandler
    /\ p_dialogos = SinDialogos

Informes == \E especie \in EspeciesConsulta : informes_de(especie)

NextVariantes == Cargar \/ Eliminar \/ Informes

SpecVariantes == InitVariantes /\ [][NextVariantes]_vars

---------------------------------------------------------------------------
(* Properties *)

\* d without the row at position pos (1-based)
SinPosicion(d, pos) == SubSeq(d, 1, pos - 1) \o SubSeq(d, pos + 1, Len(d))

\* The labels of d are its positions: 0, 1, ..., len(d) - 1 in row order
EtiquetasSonPosiciones(d) == \A i \in DOMAIN d : d[i].etiqueta = i - 1

\* The step is a call of method op (ret' records the call and what it returned)
Llamada(op) == ret'.op = op

\* The field tuple of a call of agregar_registro or modificar_registro
CamposDe(r) ==
    IF r.op = "agregar_registro" THEN r.args
    ELSE <<r.args[2], r.args[3], r.args[4], r.args[5]>>

\* C1: from any reachable dataset, a successful agregar_registro(especie, cantidad, año,
\* provincia) leaves every earlier row in place and puts a row with exactly the four
\* values last; obtener_datos_especie(especie) then contains that last row.
C1_AgregarLuegoFiltrar ==
    [][(Llamada("agregar_registro") /\ ret'.ok) =>
          LET t == ret'.args
              filtrado == Filtrar(df', t[1])
          IN  /\ len(df') = len(df) + 1
              /\ SubSeq(df', 1, len(df)) = df
              /\ Campos(df'[len(df')]) = t
              /\ filtrado # << >>
              /\ filtrado[Len(filtrado)] = df'[len(df')]
              /\ Campos(filtrado[Len(filtrado)]) = t
      ]_vars

\* C1 witness: a record was added behind another record of the same species
C1_Witness ==
    /\ ret.op = "agregar_registro" /\ ret.ok
    /\ len(df) >= 2
    /\ Len(obtener_datos_especie(ret.args[1])) >= 2

\* C2: a successful modificar_registro(i, e, c, a, p) on n rows, 0 <= i < n, leaves n
\* rows, the row at index i holding exactly (e, c, a, p) and every other row as it was.
C2_ModificarSoloFila ==
    [][(Llamada("modificar_registro") /\ ret'.ok) =>
          LET idx == ret'.args[1]
          IN  /\ 0 <= idx /\ idx < len(df)
              /\ len(df') = len(df)
              /\ Campos(df'[idx + 1]) = CamposDe(ret')
              /\ \A j \in DOMAIN df : j # idx + 1 => df'[j] = df[j]
      ]_vars

\* C2 witness: a row of a table with several rows was overwritten with new values
C2_Witness ==
    /\ ret.op = "modificar_registro" /\ ret.ok
    /\ len(df) >= 2
    /\ ret.args[1] = 1
    /\ Campos(df[2]) = EntradaA
    /\ Campos(df[1]) \notin EntradasValidas

\* C3: a successful eliminar_registro(i) on n rows removes exactly the row at position i
\* (n-1 rows remain, in their order), and the row labels are again 0..n-2; hence in every
\* reachable state the labels are the positions.
C3_EliminarCompacta ==
    /\ [](EtiquetasSonPosiciones(df))
    /\ [][(Llamada("eliminar_registro") /\ ret'.ok) =>
             LET idx == ret'.args[1]
             IN  /\ 0 <= idx /\ idx < len(df)
                 /\ len(df') = len(df) - 1
                 /\ Datos(df') = Datos(SinPosicion(df, idx + 1))
                 /\ EtiquetasSonPosiciones(df')
         ]_vars

\* C3 witness: the middle row of the three loaded rows was deleted
C3_Witness ==
    /\ ret = Retorno("eliminar_registro", <<1>>, TRUE, "Registro eliminado correctamente")
    /\ Datos(df) = Datos(SinPosicion(Normalizar(read_excel(HojaTres)), 2))

\* Whether a field tuple fails a check of agregar_registro / modificar_registro
CampoInvalido(t) ==
    \/ Strip(t[1]) = << >>
    \/ ~EnLista(t[1], ESPECIES_PANAMA)
    \/ t[2] < 0
    \/ t[3] < 1900 \/ t[3] > 2100
    \/ ~EnLista(t[4], PROVINCIAS_PANAMA)

\* C4: agregar_registro and modificar_registro called with an invalid field (empty
\* species, species or province not in its list, negative count, year outside
\* [1900, 2100]) return failure and leave the rows, ruta_archivo and
\* cambios_sin_guardar as they were.
C4_InvalidoNoMuta ==
    [][((Llamada("agregar_registro") \/ Llamada("modificar_registro"))
            /\ CampoInvalido(CamposDe(ret'))) =>
          /\ ~ret'.ok
          /\ UNCHANGED <<df, ruta_archivo, cambios_sin_guardar>>
      ]_vars

\* C4 witness: an add was refused for its province alone while unsaved rows were in memory
C4_Witness ==
    /\ ret = Retorno("agregar_registro", EntradaProvinciaAjena, FALSE, MSG_PROVINCIA)
    /\ df # << >>
    /\ cambios_sin_guardar

\* C5: modificar_registro(i, ...) and eliminar_registro(i) with i < 0 or i >= len(df)
\* return the invalid-index failure and change nothing of df, ruta_archivo and
\* cambios_sin_guardar; modificar_registro does so whatever the fields are.
C5_IndiceInvalido ==
    [][((Llamada("modificar_registro") \/ Llamada("eliminar_registro"))
            /\ ~(0 <= ret'.args[1] /\ ret'.args[1] < len(df))) =>
          /\ ~ret'.ok
          /\ ret'.msg = MSG_INDICE
          /\ UNCHANGED <<df, ruta_archivo, cambios_sin_guardar>>
      ]_vars

\* C5 witness: a modify with invalid fields was refused for its index, on a table with rows
C5_Witness ==
    /\ ret.op = "modificar_registro"
    /\ ret.args = <<MaxRows + 1>> \o EntradaEspecieAjena
    /\ ret.msg = MSG_INDICE
    /\ df # << >>

\* The position of the first TRUE of a sequence of check outcomes, 0 when none fails
PrimerFallo(fallos) ==
    IF \E i \in DOMAIN fallos : fallos[i]
    THEN CHOOSE i \in DOMAIN fallos : fallos[i] /\ \A j \in 1..(i - 1) : ~fallos[j]
    ELSE 0

\* The five checks of AddRecord in the order of the specification, for GestorAnimales
\* (on the arguments) and for proyecto.py (on the trimmed entry texts), and their messages
FallosRegistro(t) ==
    << Strip(t[1]) = << >>,
       ~EnLista(t[1], ESPECIES_PANAMA),
       t[2] < 0,
       ~(1900 <= t[3] /\ t[3] <= 2100),
       ~EnLista(t[4], PROVINCIAS_PANAMA) >>

FallosAnimal(t) ==
    << Strip(t[1]) = << >>,
       ~EnLista(Strip(t[1]), ESPECIES_PERMITIDAS),
       ~(IntParsea(Strip(t[2])) /\ IntDe(Strip(t[2])) >= 0),
       ~validar_anio(Strip(t[3])),
       ~EnLista(Strip(t[4]), PROVINCIAS_PANAMA) >>

MensajesRegistro ==
    <<MSG_ESPECIE_VACIA, MSG_ESPECIE_INVALIDA, MSG_CANTIDAD, MSG_ANIO, MSG_PROVINCIA>>

MensajesAnimal ==
    <<P_MSG_ESPECIE_VACIA, P_MSG_ESPECIE, P_MSG_CANTIDAD, P_MSG_ANIO, P_MSG_PROVINCIA>>

\* C6: AddRecord checks species non-empty, species allowed, count non-negative, year
\* rule, province listed, in that order: a call fails exactly when some check fails, and
\* then with the message of the earliest failing check; the five messages differ pairwise.
\* Both for agregar_registro (main.py) and for agregar_animal (proyecto.py).
C6_PrimerFalloGana ==
    /\ Cardinality({MensajesRegistro[i] : i \in 1..5}) = 5
    /\ Cardinality({MensajesAnimal[i] : i \in 1..5}) = 5
    /\ ret.op = "agregar_registro" =>
          LET k == PrimerFallo(FallosRegistro(ret.args))
          IN  /\ ret.ok = (k = 0)
              /\ k # 0 => ret.msg = MensajesRegistro[k]
    /\ ret.op = "agregar_animal" =>
          LET k == PrimerFallo(FallosAnimal(ret.args))
          IN  /\ (p_msg.tipo = "info") = (k = 0)
              /\ k # 0 => p_msg = Mensaje("error", MensajesAnimal[k])

\* C6 witness: both variants have refused an input that fails several checks, each with
\* the message of the earliest one
C6_Witness ==
    /\ ret = Retorno("agregar_registro", EntradaEspecieAjena, FALSE, MSG_ESPECIE_INVALIDA)
    /\ p_entradas = <<Jaguar, <<"-","1">>, <<"0","9","9","9">>, Txt_Narnia>>
    /\ p_msg = Mensaje("error", P_MSG_CANTIDAD)

\* C7: cambios_sin_guardar is False at start, True after each successful
\* agregar_registro, modificar_registro and eliminar_registro, False after each
\* successful guardar_excel and cargar_excel, and unchanged by every failed call: it is
\* True exactly when a mutation has succeeded since the last successful save or load.
\* Hence, while nothing was saved or loaded and the flag is False, the table is empty.
C7_BanderaCambios ==
    /\ ~cambios_sin_guardar
    /\ []((ruta_archivo = None /\ ~cambios_sin_guardar) => df = << >>)
    /\ [][/\ (ret'.ok /\ ret'.op \in {"agregar_registro", "modificar_registro",
                                       "eliminar_registro"})
                => cambios_sin_guardar'
          /\ (ret'.ok /\ ret'.op \in {"guardar_excel", "cargar_excel"})
                => ~cambios_sin_guardar'
          /\ ~ret'.ok => UNCHANGED cambios_sin_guardar
         ]_vars

\* C7 witness: a delete set the flag again after a save or load had cleared it
C7_Witness ==
    /\ ret.op = "eliminar_registro" /\ ret.ok
    /\ ruta_archivo # None
    /\ cambios_sin_guardar

\* C8: guardar_excel() with no path while ruta_archivo is None fails, writes no file and
\* leaves df, ruta_archivo and cambios_sin_guardar unchanged; a save whose write fails
\* returns failure and leaves df, ruta_archivo and cambios_sin_guardar unchanged.
C8_GuardarFallido ==
    [][Llamada("guardar_excel") =>
          /\ (ret'.args[1] = None /\ ruta_archivo = None) =>
                /\ ~ret'.ok
                /\ UNCHANGED <<df, ruta_archivo, cambios_sin_guardar, disco>>
          /\ \A ruta \in RutasGuardar, escritura \in Escrituras \ {"ok"} :
                guardar_excel(ruta, escritura) => ~ret'.ok
          /\ ~ret'.ok => UNCHANGED <<df, ruta_archivo, cambios_sin_guardar>>
      ]_vars

\* C8 witness: a first save was refused by the file system, unsaved rows in memory
C8_Witness ==
    /\ ret.op = "guardar_excel" /\ ~ret.ok
    /\ ret.args # <<None>>
    /\ ruta_archivo = None
    /\ df # << >>
    /\ cambios_sin_guardar

\* C9: for a non-empty dataset, a successful guardar_excel followed at once by a
\* successful cargar_excel of the same path yields the same rows: as many, in the same
\* order, with the same four values.
C9_IdaYVuelta ==
    [][(/\ ret.op = "guardar_excel" /\ ret.ok
        /\ df # << >>
        /\ Llamada("cargar_excel") /\ ret'.ok
        /\ ret'.args[1] = ruta_archivo)
          => Datos(df') = Datos(df)
      ]_vars

\* C10: a failed cargar_excel leaves df, ruta_archivo and cambios_sin_guardar as they
\* were; a successful one replaces df by the normalised rows of the file alone, sets
\* ruta_archivo to the loaded path and clears cambios_sin_guardar.
C10_CargarTodoONada ==
    [][Llamada("cargar_excel") =>
          LET ruta == ret'.args[1]
              archivo == ArchivoEn(ruta)
          IN  IF ret'.ok
              THEN /\ ~LeerFalla(archivo)
                   /\ ~NormalizarFalla(read_excel(archivo))
                   /\ len(df') = Len(archivo.filas)
                   /\ df' = Normalizar(read_excel(archivo))
                   /\ ruta_archivo' = ruta
                   /\ ~cambios_sin_guardar'
              ELSE /\ LeerFalla(archivo) \/ NormalizarFalla(read_excel(archivo))
                   /\ UNCHANGED <<df, ruta_archivo, cambios_sin_guardar>>
      ]_vars

\* C10 witness: the normalisation of a readable file raised while unsaved rows were in memory
C10_Witness ==
    /\ ret.op = "cargar_excel" /\ ~ret.ok
    /\ ~LeerFalla(ArchivoEn(ret.args[1]))
    /\ df # << >>
    /\ cambios_sin_guardar

\* C11: cargar_excel of a readable file that has no Provincia column succeeds, and every
\* row of the loaded dataset has the empty text as its province.
C11_SinColumnaProvincia ==
    [][(/\ Llamada("cargar_excel")
        /\ ~LeerFalla(ArchivoEn(ret'.args[1]))
        /\ "Provincia" \notin ArchivoEn(ret'.args[1]).columnas)
          => /\ ret'.ok
             /\ \A i \in DOMAIN df' : df'[i].Provincia = Txt_vacio
      ]_vars

\* What C12 states for a Cantidad or Año cell of a readable file: 0 for a missing
\* column, an empty cell and a text that is no number; the truncated number otherwise
EnteroEsperado(leido, i, col) ==
    LET c == CeldaDe(leido, i, col)
    IN  CASE c.k = "num" -> astype_int(c)
          [] c.k = "txt" /\ IntParsea(c.s) -> IntDe(c.s)
          [] OTHER -> 0

\* C12: cargar_excel of a readable file never fails because Cantidad or Año is missing
\* or holds non-numeric values: each such cell becomes 0, each number is truncated to an
\* integer; and the Cantidad and Año of every row of every reachable dataset are integers.
C12_CoercionNuncaFalla ==
    /\ [](\A i \in DOMAIN df : df[i].Cantidad \in Int /\ df[i].Anio \in Int)
    /\ [][(Llamada("cargar_excel") /\ ~LeerFalla(ArchivoEn(ret'.args[1])))
            => LET leido == read_excel(ArchivoEn(ret'.args[1]))
               IN  /\ ret'.ok
                   /\ len(df') = Len(leido.filas)
                   /\ \A i \in DOMAIN df' :
                         /\ df'[i].Cantidad = EnteroEsperado(leido, i, "Cantidad")
                         /\ df'[i].Anio = EnteroEsperado(leido, i, "Año")
         ]_vars

\* C13: in every reachable dataset of GestorAnimales the Cantidad of every row is a
\* non-negative integer.
C13_CantidadNoNegativa ==
    \A i \in DOMAIN df : df[i].Cantidad \in Int /\ df[i].Cantidad >= 0

\* C14: for every reachable dataset obtener_especies returns the distinct species of the
\* dataset, without duplicates, in ascending order, with no empty text among them; the
\* empty sequence for the empty dataset.
C14_EspeciesOrdenadas ==
    LET r == obtener_especies(df)
        especies == {df[i].Especie : i \in DOMAIN df}
    IN  /\ {r[i] : i \in DOMAIN r} = especies \ {Txt_vacio}
        /\ \A i, j \in DOMAIN r : i < j => MenorTexto(r[i], r[j])
        /\ \A i \in DOMAIN r : r[i] # Txt_vacio
        /\ df = << >> => r = << >>


\* The step is a call of calcular_estadisticas (consulta' records the call and the
\* dictionary returned)
CalculoHecho == consulta' # consulta /\ consulta'.op = "calcular_estadisticas"

\* The rows of the species of the call, as they are in the dataset before the call
Subconjunto == SelectSeq(df, LAMBDA f : f.Especie = consulta'.args[1])

\* The years of some rows, and the sum of the counts of the rows of one year
AniosDe(filas) == {filas[i].Anio : i \in DOMAIN filas}

SumaDelAnio(filas, anio) ==
    SumaCantidad(SelectSeq(filas, LAMBDA f : f.Anio = anio))

MaxDe(S) == CHOOSE x \in S : \A y \in S : y <= x

\* C15: calcular_estadisticas on a non-empty subset whose rows all have the same year,
\* however many rows, returns the trend "Datos insuficientes" and no projections.
C15_UnSoloAnio ==
    [][(CalculoHecho /\ Subconjunto # << >> /\ Cardinality(AniosDe(Subconjunto)) < 2)
          => /\ ~consulta'.est.vacio
             /\ consulta'.est.tendencia = "Datos insuficientes"
             /\ consulta'.est.proyecciones = << >>
      ]_vars

\* C15 witness: the statistics of two rows of one year
C15_Witness ==
    /\ consulta.op = "calcular_estadisticas"
    /\ consulta.est.registros = 2
    /\ Len(consulta.est.por_anio) = 1
    /\ consulta.est.tendencia = "Datos insuficientes"

\* The slopes tried for a line through the yearly sums
Pendientes == -100..100

\* The yearly sums of the rows lie on a line of slope k
EnLinea(filas, k) ==
    LET primero == CHOOSE a \in AniosDe(filas) : \A b \in AniosDe(filas) : a <= b
    IN  \A a \in AniosDe(filas) :
            SumaDelAnio(filas, a) - SumaDelAnio(filas, primero) = k * (a - primero)

\* C16: when the yearly sums of the subset (the rows of a year added up) lie exactly
\* on a line of integer slope k over two or more years, calcular_estadisticas projects
\* for the three years after the last one the last sum plus k, 2k and 3k, not below 0,
\* and labels the trend as an increase when k > 0.
C16_LineaExacta ==
    [][CalculoHecho =>
          \A k \in Pendientes :
              (Cardinality(AniosDe(Subconjunto)) >= 2 /\ EnLinea(Subconjunto, k)) =>
                  LET ultimo == MaxDe(AniosDe(Subconjunto))
                      suma == SumaDelAnio(Subconjunto, ultimo)
                  IN  /\ consulta'.est.proyecciones =
                            << <<ultimo + 1, Max0(suma + k)>>,
                               <<ultimo + 2, Max0(suma + 2 * k)>>,
                               <<ultimo + 3, Max0(suma + 3 * k)>> >>
                      /\ k > 0 => consulta'.est.tendencia \in
                                      {"Aumento significativo", "Aumento moderado"}
      ]_vars

\* C16 witness: the sums 10, 20, 30 of 2020-2022 from four rows gave 40, 50, 60
C16_Witness ==
    /\ consulta.op = "calcular_estadisticas"
    /\ consulta.est.registros = 4
    /\ consulta.est.por_anio = << [clave |-> 2020, suma |-> 10],
                                  [clave |-> 2021, suma |-> 20],
                                  [clave |-> 2022, suma |-> 30] >>
    /\ consulta.est.tendencia = "Aumento significativo"
    /\ consulta.est.proyecciones = << <<2023, 40>>, <<2024, 50>>, <<2025, 60>> >>

\* C17: whenever calcular_estadisticas returns projections there are exactly three, for
\* the three years after the largest year of the subset in that order, and each
\* projected count is an integer that is not negative.
C17_TresProyecciones ==
    [][(CalculoHecho /\ consulta'.est.proyecciones # << >>) =>
          LET proyecciones == consulta'.est.proyecciones
              max_year == MaxDe(AniosDe(Subconjunto))
          IN  /\ Len(proyecciones) = 3
              /\ \A i \in 1..3 :
                    /\ proyecciones[i][1] = max_year + i
                    /\ proyecciones[i][2] \in Int
                    /\ proyecciones[i][2] >= 0
      ]_vars

\* C17 witness: the projections of a subset falling from 100 to 10 in one year
C17_Witness ==
    /\ consulta.op = "calcular_estadisticas"
    /\ consulta.est.tendencia = "Disminución significativa"
    /\ consulta.est.por_anio = << [clave |-> 2020, suma |-> 100],
                                  [clave |-> 2021, suma |-> 10] >>
    /\ consulta.est.proyecciones = << <<2022, 0>>, <<2023, 0>>, <<2024, 0>> >>

\* C18: calcular_estadisticas and obtener_datos_especie, for a species that occurs and
\* for one that does not, leave the rows of the dataset and their order, ruta_archivo
\* and cambios_sin_guardar as they were.
C18_ConsultasNoMutan ==
    [][(consulta' # consulta) => UNCHANGED <<df, ruta_archivo, cambios_sin_guardar>>]_vars

\* C18 witness: the statistics of a species with rows were computed on a dataset that
\* also holds other species and has unsaved changes
C18_Witness ==
    /\ consulta.op = "calcular_estadisticas"
    /\ ~consulta.est.vacio
    /\ consulta.est.registros < len(df)
    /\ consulta.est.registros = Len(Filtrar(df, consulta.args[1]))
    /\ cambios_sin_guardar

---------------------------------------------------------------------------
(* C19 *)

\* A report handler has just returned or been left
InformeHecho == ui' # ui /\ ui'.op \in {"_generar_pdf", "generar_informe"}

\* C19: every report generator, once it has created temporary chart files, has removed
\* them or tried to by the time it returns, when the document is built and when building
\* it raises; a failure of the removal is never shown nor raised.
C19_TemporalesRetirados ==
    [][(InformeHecho /\ ui'.creados # {})
          => /\ ui'.limpieza
             /\ ui'.fin = "retorno"
             /\ ui'.args[4] = "ok" => ui'.creados \cap temporales' = {}
             /\ ui'.dialogo = (IF ui'.args[2] = "ok" /\ ui'.args[3] = "ok"
                               THEN "info" ELSE "error")]_vars

---------------------------------------------------------------------------
(* C20 *)

\* proyecto.py has just loaded or saved, and the call read or wrote a file
P_LecturaHecha == ui' # ui /\ ui'.op = "cargar_excel" /\ ui'.args[1] # ""
P_EscrituraHecha ==
    /\ ui' # ui
    /\ ui'.op = "guardar_excel"
    /\ (p_ruta_archivo \notin {None, ""} \/ ui'.args[1] # "")

\* C20: in every variant a failing read or write of a file inside load or save reaches
\* the caller as an error result (an error return value or an error dialog) and never
\* leaves the operation as an exception, the first save, for which the user has just
\* chosen the path, included.
C20_FalloComoResultado ==
    [][/\ (P_LecturaHecha /\ LeerFalla(ArchivoEn(ui'.args[1])))
            => (ui'.fin = "retorno" /\ ui'.dialogo = "error")
       /\ (P_EscrituraHecha /\ ui'.args[2] # "ok")
            => (ui'.fin = "retorno" /\ ui'.dialogo = "error")
       /\ (ret' # ret /\ ret'.op = "cargar_excel" /\ LeerFalla(ArchivoEn(ret'.args[1])))
            => ~ret'.ok
       /\ \A ruta \in RutasGuardar, escritura \in Escrituras \ {"ok"} :
            (guardar_excel(ruta, escritura) /\ (ruta # None \/ ruta_archivo # None))
                => ~ret'.ok]_vars

---------------------------------------------------------------------------
(* C21 *)

\* The statistics of a species with rows in at least two years are the last result
DosAniosCalculados ==
    /\ consulta.op = "calcular_estadisticas"
    /\ ~consulta.est.vacio
    /\ Len(consulta.est.por_anio) > 1

\* The label the thresholds give to the least-squares slope num / den
EtiquetaDeUmbral(coef) ==
    CASE coef.num > 5 * coef.den -> "Aumento significativo"
      [] coef.num > 0 /\ coef.num <= 5 * coef.den -> "Aumento moderado"
      [] coef.num < (0 - 5) * coef.den -> "Disminución significativa"
      [] coef.num < 0 /\ coef.num >= (0 - 5) * coef.den -> "Disminución moderada"
      [] coef.num = 0 -> "Estable"

---------------------------------------------------------------------------
(* C22 *)

\* The sum of the counts of the rows of the species asked for
TotalSubconjunto == SumaSeq([i \in DOMAIN Subconjunto |-> Subconjunto[i].Cantidad])

\* C22: promedio is the arithmetic mean of the counts of all rows of the species subset
\* rounded to the nearest integer (counts 2, 3, 3 give 3): it is at most one half away
\* from the mean.
C22_PromedioRedondeado ==
    [][(CalculoHecho /\ ~consulta'.est.vacio) =>
          LET n == Len(Subconjunto)
              promedio == consulta'.est.promedio
          IN  /\ 2 * (n * promedio - TotalSubconjunto) <= n
              /\ 2 * (TotalSubconjunto - n * promedio) <= n
      ]_vars

---------------------------------------------------------------------------
(* C23 *)

\* The sum of the counts of the rows of one province
SumaDeProvincia(filas, provincia) ==
    SumaSeq([i \in DOMAIN filas |->
                IF filas[i].Provincia = provincia THEN filas[i].Cantidad ELSE 0])

\* C23: for a non-empty species subset, por_año maps each distinct year of the subset to
\* the sum of the counts of that year, keys ascending; por_provincia maps each distinct
\* province to the sum of the counts of that province; total is the sum of all counts,
\* so the values of por_año and those of por_provincia each sum to total; registros is
\* the number of rows.
C23_SumasPorGrupo ==
    [][(CalculoHecho /\ ~consulta'.est.vacio) =>
          LET est == consulta'.est
              por_anio == est.por_anio
              por_provincia == est.por_provincia
          IN  /\ {por_anio[j].clave : j \in DOMAIN por_anio} = AniosDe(Subconjunto)
              /\ \A j \in DOMAIN por_anio :
                    /\ por_anio[j].suma = SumaDelAnio(Subconjunto, por_anio[j].clave)
                    /\ j > 1 => por_anio[j - 1].clave < por_anio[j].clave
              /\ {por_provincia[j].clave : j \in DOMAIN por_provincia}
                    = {Subconjunto[i].Provincia : i \in DOMAIN Subconjunto}
              /\ \A j, k \in DOMAIN por_provincia :
                    j # k => por_provincia[j].clave # por_provincia[k].clave
              /\ \A j \in DOMAIN por_provincia :
                    por_provincia[j].suma = SumaDeProvincia(Subconjunto, por_provincia[j].clave)
              /\ est.total = TotalSubconjunto
              /\ SumaSeq([j \in DOMAIN por_anio |-> por_anio[j].suma]) = est.total
              /\ SumaSeq([j \in DOMAIN por_provincia |-> por_provincia[j].suma]) = est.total
              /\ est.registros = Len(Subconjunto)
      ]_vars

\* C23 witness: the statistics of three rows of a species, two of them in one year and
\* two of them in one province, in a dataset that holds another species too
C23_Witness ==
    /\ consulta.op = "calcular_estadisticas"
    /\ consulta.est.registros = 3
    /\ consulta.est.total = 8
    /\ consulta.est.por_anio = << [clave |-> 2020, suma |-> 5], [clave |-> 2021, suma |-> 3] >>
    /\ consulta.est.por_provincia = << [clave |-> Colon, suma |-> 6], [clave |-> Darien, suma |-> 2] >>
    /\ Len(Filtrar(df, consulta.args[1])) = 3
    /\ len(df) > 3

---------------------------------------------------------------------------
(* C24 *)

\* A load has just succeeded
CargaHecha == ret' # ret /\ ret'.op = "cargar_excel" /\ ret'.ok

\* The trimmed text of the Provincia cell of row i of the file just loaded
ProvinciaLeida(i) ==
    Strip(astype_str(CeldaDe(read_excel(ArchivoEn(ret'.args[1])), i, "Provincia")))

\* Whether one of the texts v and p, letter case aside, is a part of the other
CoincidenciaParcial(v, p) ==
    EsSubcadena(Lower(v), Lower(p)) \/ EsSubcadena(Lower(p), Lower(v))

\* The name the normalisation is said to give to the trimmed text v
ProvinciaEsperada(v) ==
    LET candidatas == {i \in DOMAIN PROVINCIAS_PANAMA :
                          CoincidenciaParcial(v, PROVINCIAS_PANAMA[i])}
    IN  IF \E i \in DOMAIN PROVINCIAS_PANAMA : PROVINCIAS_PANAMA[i] = v THEN v
        ELSE IF candidatas = {} THEN v
        ELSE PROVINCIAS_PANAMA[CHOOSE i \in candidatas : \A j \in candidatas : i <= j]

\* C24: the province normalisation on load maps each trimmed value v to v when v is one
\* of the ten listed names, otherwise to the first listed name p, in list order, for
\* which lower(v) is a part of lower(p) or lower(p) a part of lower(v), and to v when
\* there is no such p; applied to its own output it changes nothing.
C24_PrimeraCoincidencia ==
    [][CargaHecha =>
          \A i \in DOMAIN df' :
              /\ df'[i].Provincia = ProvinciaEsperada(ProvinciaLeida(i))
              /\ corregir_provincia(df'[i].Provincia) = df'[i].Provincia
      ]_vars

\* C24 witness: a loaded file had the province texts "o" and " Colón ", which are now
\* the first listed name with an o and the listed name without the blanks
C24_Witness ==
    /\ ret.op = "cargar_excel"
    /\ ret.ok
    /\ disco[ret.args[1]].estado = "ok"
    /\ Len(disco[ret.args[1]].filas) = 2
    /\ disco[ret.args[1]].filas[1]["Provincia"] = CTxt(<<"o">>)
    /\ disco[ret.args[1]].filas[2]["Provincia"] = CTxt(<<" ","C","o","l","ó","n"," ">>)
    /\ Len(df) = 2
    /\ df[1].Provincia = Bocas_del_Toro
    /\ df[2].Provincia = Colon

---------------------------------------------------------------------------
(* C25 *)

\* C25: the province normalisation on load maps every value that equals one of the ten
\* listed names up to letter case ('panamá oeste' for 'Panamá Oeste') to that listed
\* name and never to another one.
C25_MismaProvinciaSinCaja ==
    [][CargaHecha =>
          \A i \in DOMAIN df' : \A j \in DOMAIN PROVINCIAS_PANAMA :
              Lower(ProvinciaLeida(i)) = Lower(PROVINCIAS_PANAMA[j])
                  => df'[i].Provincia = PROVINCIAS_PANAMA[j]
      ]_vars

---------------------------------------------------------------------------
(* C26 *)

\* A modify handler of proyecto.py has just read its entries (a row was selected)
ModificarHecho ==
    /\ ui' # ui
    /\ ui'.op \in {"accion_modificar_mod", "accion_modificar"}
    /\ ui'.dialogo # "aviso"

\* Whether agregar_animal accepts the four entry texts
AgregarAcepta(textos) ==
    ValidarAnimal(Strip(textos[1]), Strip(textos[2]), Strip(textos[3]), Strip(textos[4]))
        = MSG_OK

\* C26: modifying applies the validations of adding. In proyecto.py every input that
\* agregar_animal rejects is rejected, with no change to the dataset, by accion_modificar_mod
\* of the panel and by accion_modificar of the dialog, and every input it accepts is
\* accepted by them; the same holds between agregar_registro and modificar_registro of
\* GestorAnimales.
C26_MismasValidaciones ==
    [][/\ ModificarHecho =>
            IF AgregarAcepta(ui'.args[2])
            THEN ui'.dialogo = "info"
            ELSE ui'.dialogo = "error" /\ p_df' = p_df
       /\ (ret' # ret /\ ret'.op = "modificar_registro"
              /\ 0 <= ret'.args[1] /\ ret'.args[1] < len(df)) =>
            LET a == ret'.args
            IN  IF ValidarAgregar(a[2], a[3], a[4], a[5]) = MSG_OK
                THEN ret'.ok
                ELSE ~ret'.ok /\ df' = df
      ]_vars

---------------------------------------------------------------------------
(* C27 *)

\* Delete or Modify of a dialog has just changed the dataset
DialogoElimino == ui' # ui /\ ui'.op = "accion_eliminar" /\ ui'.dialogo = "info"
DialogoModifico == ui' # ui /\ ui'.op = "accion_modificar" /\ ui'.dialogo = "info"

\* The positions (from 1) of the rows of the dataset whose four fields equal the record
\* the dialog displays; equality is that of the values as the program compares them, so
\* a missing value equals nothing
IgualesAlMostrado(dlg) ==
    {i \in DOMAIN p_df : /\ p_df[i].Especie # NaN /\ p_df[i].Especie = dlg.fila[1]
                         /\ p_df[i].Cantidad = dlg.fila[2]
                         /\ p_df[i].Anio = dlg.fila[3]
                         /\ p_df[i].Provincia # NaN /\ p_df[i].Provincia = dlg.fila[4]}

\* The position the claim gives: the first equal row, else the dialog's own position
PosicionDelDialogo(dlg) ==
    IF IgualesAlMostrado(dlg) # {}
    THEN CHOOSE i \in IgualesAlMostrado(dlg) : \A j \in IgualesAlMostrado(dlg) : i <= j
    ELSE dlg.idx + 1

\* The record the entry texts of a dialog stand for
RegistroDe(textos) ==
    <<Strip(textos[1]), IntPython(textos[2]), IntPython(textos[3]), Strip(textos[4])>>

\* The first half of the claim: which row Delete removes and Modify overwrites
PrimerIgualOPosicion ==
    /\ DialogoElimino =>
          Datos(p_df') = SinPosicion(Datos(p_df), PosicionDelDialogo(ui'.args[3]))
    /\ DialogoModifico =>
          Datos(p_df') = [Datos(p_df) EXCEPT ![PosicionDelDialogo(ui'.args[3])] =
                              RegistroDe(ui'.args[2])]

\* The row the dialog was opened on still shows the displayed record
SeleccionIntacta(dlg) == dlg.idx + 1 \in IgualesAlMostrado(dlg)

\* How often the record v occurs in the sequence s
Veces(s, v) == Cardinality({i \in DOMAIN s : s[i] = v})

\* Two sequences hold the same records, each as often
MismosRegistros(s, t) ==
    Len(s) = Len(t) /\ \A i \in DOMAIN s : Veces(s, s[i]) = Veces(t, s[i])

---------------------------------------------------------------------------
(* C28 *)

\* Delete was confirmed, or Modify pressed with texts that pass its checks, in an open
\* dialog
DialogoConfirmado ==
    /\ ui' # ui
    /\ \/ ui'.op = "accion_eliminar" /\ ui'.dialogo # "cancelado"
       \/ ui'.op = "accion_modificar" /\ ValidarDialogo(ui'.args[2]) = MSG_OK

\* C28: a stale record reference causes no mutation. Dialogs are not modal, and rows can
\* be added, modified and deleted between opening a dialog and confirming in it:
\* confirming Delete or Modify in a dialog whose displayed record is no longer in the
\* dataset shows an error and never removes or overwrites a record whose fields differ
\* from the displayed record.
C28_ReferenciaCaducada ==
    [][(DialogoConfirmado /\ IgualesAlMostrado(ui'.args[3]) = {}
           /\ ~(\E i \in DOMAIN p_df : Campos(p_df[i]) = ui'.args[3].fila)) =>
          /\ ui'.dialogo = "error"
          /\ p_df' = p_df
      ]_vars

---------------------------------------------------------------------------
(* C30 *)

\* _on_closing ran in the step
CierrePedido == ui' # ui /\ ui'.op = "_on_closing"

\* C30: main.py never terminates through _on_closing while cambios_sin_guardar is True
\* unless the user answered No to the save prompt: when the user answers Yes and the
\* save fails, the application does not quit and the unsaved changes stay; when the user
\* cancels the prompt or the file picker, the application keeps running with the dataset
\* unchanged.
C30_CierreSinPerdida ==
    [][CierrePedido =>
          /\ (ui'.fin = "cerrada" /\ cambios_sin_guardar') => ui'.args[1] = "no"
          /\ (cambios_sin_guardar /\ ui'.args[1] = "si" /\ ret' # ret /\ ~ret'.ok) =>
                ui'.fin = "retorno" /\ df' = df /\ cambios_sin_guardar'
          /\ (cambios_sin_guardar /\ (ui'.args[1] = "cancelar"
                                       \/ (ui'.args[1] = "si" /\ ruta_archivo \in {None, ""}
                                             /\ ui'.args[2] = ""))) =>
                ui'.fin = "retorno" /\ df' = df /\ cambios_sin_guardar'
      ]_vars

---------------------------------------------------------------------------
(* C29 *)

\* Both variants computed their reports for a subset with at least two distinct years
VariantesCalculadas ==
    /\ ui.op = "generar_informe"
    /\ Len(ui.args) = 6
    /\ consulta.op = "calcular_estadisticas"
    /\ Len(consulta.est.por_anio) > 1

\* C29: the simpler report variant does not clamp its projections. For every subset with
\* at least two distinct years both variants project the same three years; every value
\* of the simpler variant that is not negative is the value of calcular_estadisticas, and
\* where the simpler variant's value is negative calcular_estadisticas gives 0; the
\* simpler variant's conclusion is one of three and follows the sign of the slope only:
\* increasing when it is positive, decreasing when negative, stable when it is zero.
C29_VarianteSinRecorte ==
    VariantesCalculadas =>
        LET tabla == ui.args[6]
            proyecciones == consulta.est.proyecciones
            coef == ui.args[3]
            signo == ui.args[4]
        IN  /\ Len(tabla) = 3 /\ Len(proyecciones) = 3
            /\ \A i \in 1..3 :
                  /\ tabla[i][1] = proyecciones[i][1]
                  /\ tabla[i][2] >= 0 => proyecciones[i][2] = tabla[i][2]
                  /\ tabla[i][2] < 0 => proyecciones[i][2] = 0
            /\ coef.num > 0 => signo = 1
            /\ coef.num < 0 => signo = -1
            /\ ui.args[5] = (CASE signo = 1 -> "La población tiende a aumentar."
                               [] signo = -1 -> "La población tiende a disminuir."
                               [] OTHER -> "La población se mantiene estable.")
            /\ SignoDeTendencia(consulta.est.tendencia) = signo

\* C29 witness: a subset with two distinct years and no negative count for which the
\* simpler variant projects a negative count and calcular_estadisticas projects 0 for the
\* same year
C29_Witness ==
    /\ VariantesCalculadas
    /\ \A i \in DOMAIN ui.args[2] : ui.args[2][i].Cantidad >= 0
    /\ \E i \in 1..3 :
          /\ ui.args[6][i][2] < 0
          /\ consulta.est.proyecciones[i] = <<ui.args[6][i][1], 0>>
    /\ \E i \in 1..3 : ui.args[6][i][2] > 0

=============================================================================
